---- MODULE Spec2Model ----
(***************************************************************************)
(* Check-in orchestration engine of vital-sync-bot: the session store, the *)
(* Q&A engine (process_ai_answer), the chat router (handle_new_message),   *)
(* the emergency follow-up router and the call-mode runner (run_call_qna). *)
(*                                                                         *)
(* One conversation key is modelled: the records of different keys never   *)
(* meet in the code.  Session records are Python dicts, so a coroutine     *)
(* holds a REFERENCE to the dict it read from SESSION_STATE: the store     *)
(* holds a reference too, and the dicts live in a heap.  An `await` of    *)
(* the code is a suspension point and ends an action; what runs between    *)
(* two awaits is one action.  Consecutive awaits with nothing shared read  *)
(* or written between them are one suspension; an await followed only by   *)
(* the return is part of the action that returns.                          *)
(*                                                                         *)
(* Texts are sequences of one-character strings, so that lower(), upper(), *)
(* strip() and substring containment are computed, not assumed.            *)
(* Sends on the chat transport are taken to complete.                      *)
(***************************************************************************)
EXTENDS Integers, Sequences, FiniteSets, TLC

\* Longest question set the LLM returns.
MaxQuestions == 2
\* Session dicts alive at once (the store's and those held by coroutines).
MaxRecords == 2
\* The longest prompt, in characters.
MaxPromptLen == 400
\* The ask requests counted in one execution of run_call_qna; further ones
\* leave the count there.
MaxAsks == 7

----------------------------------------------------------------------------
\* Text helpers

Uppers == <<"A","B","C","D","E","F","G","H","I","J","K","L","M",
            "N","O","P","Q","R","S","T","U","V","W","X","Y","Z">>
Lowers == <<"a","b","c","d","e","f","g","h","i","j","k","l","m",
            "n","o","p","q","r","s","t","u","v","w","x","y","z">>

LowerChar(c) ==
    IF \E i \in 1..26 : Uppers[i] = c
    THEN Lowers[CHOOSE i \in 1..26 : Uppers[i] = c]
    ELSE c

UpperChar(c) ==
    IF \E i \in 1..26 : Lowers[i] = c
    THEN Uppers[CHOOSE i \in 1..26 : Lowers[i] = c]
    ELSE c

\* str.lower() / str.upper()
Lower(s) == [i \in 1..Len(s) |-> LowerChar(s[i])]
Upper(s) == [i \in 1..Len(s) |-> UpperChar(s[i])]

\* `sub in s`
Contains(s, sub) ==
    \E i \in 1..(Len(s) - Len(sub) + 1) : SubSeq(s, i, i + Len(sub) - 1) = sub

RECURSIVE LStrip(_)
LStrip(s) == IF s # <<>> /\ Head(s) = " " THEN LStrip(Tail(s)) ELSE s

RECURSIVE RStrip(_)
RStrip(s) ==
    IF s # <<>> /\ s[Len(s)] = " " THEN RStrip(SubSeq(s, 1, Len(s) - 1)) ELSE s

\* str.strip()
Strip(s) == RStrip(LStrip(s))

----------------------------------------------------------------------------
\* Inputs

T_fine == <<"f","i","n","e">>
T_Pain == <<"P","a","i","n">>
T_STOP == <<"S","T","O","P">>
T_bye  == <<" ","B","y","e"," ">>
T_end  == <<"w","e","e","k","e","n","d">>
T_loc  == <<"S","e","n","d"," ","L","o","c","a","t","i","o","n","?">>

\* Texts a patient types (or says) that end the session.
StopTexts == {T_STOP, T_bye, T_end, T_loc}

\* The other texts of a behaviour: one when handlers interleave, two (the
\* second carries an emergency keyword) under serial dispatch.
AnswerTextsOf(ser) == IF ser THEN {T_fine, T_Pain} ELSE {T_fine}

\* An inbound private message: its text and its media kind (a shared
\* location and a photo come without text).
ChatMessagesOf(ser) ==
    {[text |-> x, media |-> "none"] : x \in AnswerTextsOf(ser) \cup StopTexts}
        \cup {[text |-> <<>>, media |-> "geo"], [text |-> <<>>, media |-> "photo"]}

\* A question as start_ai_session stores it: its sequence number and its text
\* (only whether the text is empty matters to the engine).
Regular(i) == [seq |-> i, question |-> "Q"]
\* An item whose text is empty after _strip_greeting, and an item the LLM
\* numbered itself (q.get("seq", idx) keeps the LLM's number).
Blank(i)   == [seq |-> i, question |-> ""]
Numbered   == [seq |-> 1, question |-> "Q"]

\* The question sets: every length up to MaxQuestions; at most one item is
\* not the regular one.
QuestionSets ==
    UNION {
        {qs \in [1..n -> {Regular(i) : i \in 1..n} \cup {Blank(i) : i \in 1..n}
                            \cup {Numbered}] :
            /\ \A i \in 1..n : qs[i] \in {Regular(i), Blank(i), Numbered}
            /\ Cardinality({i \in 1..n : qs[i] # Regular(i)}) <= 1}
        : n \in 0..MaxQuestions}

\* PatientData.RiskLevel as the backend returns it (null, or any string).
Opt(s)  == [none |-> FALSE, v |-> s]
NoneStr == [none |-> TRUE, v |-> <<>>]
RiskInputs ==
    {NoneStr, Opt(<<>>),
     Opt(<<"L","O","W">>), Opt(<<"l","o","w">>),
     Opt(<<"M","e","d","i","u","m">>),
     Opt(<<"h","i","g","h">>), Opt(<<"H","I","G","H">>),
     Opt(<<"C","r","i","t","i","c","a","l">>),
     Opt(<<"s","e","v","e","r","e">>)}

R_low == Opt(<<"l","o","w">>)

\* What the collaborators give every session of one behaviour: the LLM's
\* question set, whether the backend issued a check-in id, whether the
\* patient has a user id, and the patient's baseline risk level.  The risk
\* level meets the rest only in the analysis payload, so every risk level is
\* tried with one question set, and every question set with one risk level.
Inputs ==
    {i \in [question_set : QuestionSets, checkin_id : BOOLEAN,
            patient_user_id : BOOLEAN, RiskLevel : RiskInputs] :
        \/ i.RiskLevel = R_low
        \/ i.question_set = <<Regular(1)>> /\ i.checkin_id}

\* What json.loads of the summary LLM's text gives: an object, nothing usable
\* (an exception, empty or non-JSON text: the code falls back to {}), or a
\* JSON value that is not an object.
SummaryOutcomes == {"object", "fallback", "not_object"}

----------------------------------------------------------------------------
\* State

VARIABLES
    store,   \* SESSION_STATE.get(key): a reference to a session dict, or NoRef
    heap,    \* the session dicts, by reference
    pc,      \* where each coroutine is suspended
    sd,      \* session_data / state: the dict reference a coroutine holds
    idx,     \* idx: the index a coroutine read from its dict
    ans,     \* user_answer of the step a coroutine is in
    trace,   \* what the handler a coroutine is in has done so far, in order
    fails,   \* fail_attempts of run_call_qna
    gone,    \* how the key's last record left the store, while the key has none
    input,   \* what the LLM and the backend return when a session starts
    serial,  \* whether the transport dispatches one handler per key at a time
    env,     \* which configuration keys of config.py are set
    fn,      \* a call of a provider chain: the requests it made and its result
    runner,  \* run_call_qna: the question of the ask request in flight, and
             \* the messages it sent after the last ask returned
    second,  \* another invocation of run_call_qna for the same key: where it
             \* is, its fail_attempts, its ask and messages
    asks     \* the ask requests the execution of run_call_qna has issued,
             \* in the specification that counts them (-1 in the others)

vars == <<store, heap, pc, sd, idx, ans, trace, fails, gone, input, serial,
          env, fn, runner, second, asks>>

\* "chat": the Telethon update handler (sequential_updates=True: one update
\* at a time).  "call": the coroutine running run_call_qna.
Tasks == {"chat", "call"}

NoRef == 0
Refs  == 1..MaxRecords

\* patient_context: the PatientData of the record (its fields the engine
\* branches on).
PatientData(r) == [RiskLevel |-> r]

\* A heap cell no reference leads to.
Free ==
    [status |-> "FREE", question_set |-> <<>>, index |-> 0, answers |-> <<>>,
     checkin_id |-> FALSE, patient_user_id |-> FALSE,
     patient_context |-> PatientData(NoneStr), heard |-> <<>>]

\* An event of a trace: what was done, with up to two numbers and a text.
Ev(e, n, m, x) == [e |-> e, n |-> n, m |-> m, x |-> x]
E0(e) == Ev(e, 0, 0, <<>>)

\* The state as one value, so that the code's straight-line segments compose.
Cur ==
    [store |-> store, heap |-> heap, pc |-> pc, sd |-> sd, idx |-> idx,
     ans |-> ans, trace |-> trace, fails |-> fails, gone |-> gone,
     runner |-> runner, second |-> second, asks |-> asks]

Held(s, o)      == \E t \in Tasks : s.sd[t] = o
Reachable(s, o) == o = s.store \/ Held(s, o)
FreeSlots(s)    == {o \in Refs : ~Reachable(s, o)}
NewRef(s)       == CHOOSE o \in FreeSlots(s) : \A p \in FreeSlots(s) : o <= p

\* Python frees a dict once the last reference to it is gone.
Sweep(s) == [o \in Refs |-> IF Reachable(s, o) THEN s.heap[o] ELSE Free]

Apply(s) ==
    /\ store' = s.store
    /\ heap'  = Sweep(s)
    /\ pc'    = s.pc
    /\ sd'    = s.sd
    /\ idx'   = s.idx
    /\ ans'   = s.ans
    /\ trace' = s.trace
    /\ fails' = s.fails
    /\ gone'  = s.gone
    /\ runner' = s.runner
    /\ second' = s.second
    /\ asks' = s.asks
    /\ UNCHANGED <<input, serial, env, fn>>

Emit(s, t, ev) == [s EXCEPT !.trace[t] = Append(@, ev)]
Goto(s, t, p)  == [s EXCEPT !.pc[t] = p]

\* The handler returns to its caller / an exception leaves it.
Ret(s, t)   == Goto(s, t, "ret")
Raise(s, t) == Goto(Emit(s, t, E0("raise")), t, "raised")

InHandler(p) == p \notin {"idle", "r_off", "r_ask", "r_sleep", "r_end", "r_dead"}

\* Single-consumer-per-key dispatch, when the transport upholds it: a handler
\* starts only when no other handler for the key is running.
MayBegin(t) == ~serial \/ \A u \in Tasks \ {t} : ~InHandler(pc[u])

\* A return is no suspension point: nothing else runs between a handler's
\* last statement and its return ("ret" and "raised" only show the finished
\* handler's trace).
Running == \A t \in Tasks : pc[t] \notin {"ret", "raised"}

\* config.py: the keys the chains look at, set or not.  HF_TTS_MODEL is
\* unset, a model of its own, or one of the built-in fallback models.
Envs ==
    [GROQ_API_KEY : BOOLEAN, GEMINI_API_KEY : BOOLEAN, STT_API_URL : BOOLEAN,
     DEEPGRAM_API_KEY : BOOLEAN, HF_TTS_TOKEN : BOOLEAN,
     HF_TTS_MODEL : {"", "custom", "facebook/mms-tts-eng"}]

NoKeys ==
    [GROQ_API_KEY |-> FALSE, GEMINI_API_KEY |-> FALSE, STT_API_URL |-> FALSE,
     DEEPGRAM_API_KEY |-> FALSE, HF_TTS_TOKEN |-> FALSE, HF_TTS_MODEL |-> ""]

\* What a chain call leaves: which function ran, the requests made to
\* backends in order, and what the caller got: the value (None as "none"),
\* the error (None, or no error slot at all, as "none"), or an exception.
\* `args` is what the backends answered in this call, `resp` the LLM's
\* answer the question-building step read, `questions` the list it ends with,
\* `window` the prompt length and listen_seconds argument of an ask and the
\* listen_seconds it sent, `query` the values of the trigger request's type
\* parameter.
NoResponse == [kind |-> "none", items |-> <<>>]
NoWindow == [len |-> 0, arg |-> 0, sent |-> 0]
Call(op, calls, value, error) ==
    [op |-> op, calls |-> calls, value |-> value, error |-> error,
     raised |-> FALSE, args |-> <<>>, resp |-> NoResponse, questions |-> <<>>,
     window |-> NoWindow, query |-> <<>>]
Raised(op, calls) ==
    [op |-> op, calls |-> calls, value |-> "none", error |-> "none",
     raised |-> TRUE, args |-> <<>>, resp |-> NoResponse, questions |-> <<>>,
     window |-> NoWindow, query |-> <<>>]
Idle == Call("idle", <<>>, "none", "none")

\* The runner between two asks: no request in flight (asking is the position
\* of the asked question in question_set, 0 for none), nothing said.
Quiet == [asking |-> 0, said |-> <<>>]

\* An invocation of run_call_qna that has not been made.
NotRun == [pc |-> "r_off", fails |-> 0, runner |-> Quiet]

Init ==
    /\ store = NoRef
    /\ heap = [o \in Refs |-> Free]
    /\ pc = [t \in Tasks |-> IF t = "chat" THEN "idle" ELSE "r_off"]
    /\ sd = [t \in Tasks |-> NoRef]
    /\ idx = [t \in Tasks |-> 0]
    /\ ans = [t \in Tasks |-> <<>>]
    /\ trace = [t \in Tasks |-> <<>>]
    /\ fails = 0
    /\ gone = "never"
    /\ input \in Inputs
    /\ serial = FALSE
    /\ env = NoKeys
    /\ fn = Idle
    /\ runner = Quiet
    /\ second = NotRun
    /\ asks = -1

InitSeq ==
    /\ store = NoRef
    /\ heap = [o \in Refs |-> Free]
    /\ pc = [t \in Tasks |-> IF t = "chat" THEN "idle" ELSE "r_off"]
    /\ sd = [t \in Tasks |-> NoRef]
    /\ idx = [t \in Tasks |-> 0]
    /\ ans = [t \in Tasks |-> <<>>]
    /\ trace = [t \in Tasks |-> <<>>]
    /\ fails = 0
    /\ gone = "never"
    /\ input \in Inputs
    /\ serial = TRUE
    /\ env = NoKeys
    /\ fn = Idle
    /\ runner = Quiet
    /\ second = NotRun
    /\ asks = -1

----------------------------------------------------------------------------
\* The Q&A engine: process_ai_answer

K_end  == <<"e","n","d">>
K_stop == <<"s","t","o","p">>
K_bye  == <<"b","y","e">>

\* "end" in user_answer.lower() or "stop" in ... or "bye" in ...
IsTermination(user_answer) ==
    \/ Contains(Lower(user_answer), K_end)
    \/ Contains(Lower(user_answer), K_stop)
    \/ Contains(Lower(user_answer), K_bye)

R_LOW      == <<"L","O","W">>
R_MEDIUM   == <<"M","E","D","I","U","M">>
R_HIGH     == <<"H","I","G","H">>
R_CRITICAL == <<"C","R","I","T","I","C","A","L">>

\* Variant: the risk level compared as the backend spelled it.
risk_level_exact(RiskLevel) == IF RiskLevel.none THEN <<>> ELSE RiskLevel.v

\* (patient_data.RiskLevel or "").upper()
risk_level(RiskLevel) == IF RiskLevel.none THEN <<>> ELSE Upper(RiskLevel.v)

\* severity_map.get(risk_level, "LOW")
severity(rl) ==
    CASE rl = R_CRITICAL -> "HIGH"
      [] rl = R_HIGH     -> "MEDIUM"
      [] rl = R_MEDIUM   -> "LOW"
      [] rl = R_LOW      -> "LOW"
      [] OTHER           -> "LOW"

\* {...}.get(risk_level, 30)
risk_score(rl) ==
    CASE rl = R_HIGH     -> 80
      [] rl = R_CRITICAL -> 90
      [] rl = R_MEDIUM   -> 60
      [] rl = R_LOW      -> 30
      [] OTHER           -> 30

\* "CONCERN" if risk_level in ["HIGH", "CRITICAL", "MEDIUM"] else "STABLE"
medical_status(rl) ==
    IF rl \in {R_HIGH, R_CRITICAL, R_MEDIUM} THEN "CONCERN" ELSE "STABLE"

\* Which of the three deleting transitions the handler of t is in: it sent
\* the termination acknowledgement, the location confirmation, or the final
\* reply.
Transition(s, t) ==
    IF \E k \in 1..Len(s.trace[t]) : s.trace[t][k].e = "ack"
    THEN "termination"
    ELSE IF \E k \in 1..Len(s.trace[t]) : s.trace[t][k].e = "location_received"
         THEN "location_share"
         ELSE "completion"

\* del SESSION_STATE[recipient_key]: KeyError when the key has no record.
DelSessionState(s, t) ==
    IF s.store = NoRef
    THEN Raise(s, t)
    ELSE Ret(Emit([s EXCEPT !.store = NoRef, !.gone = Transition(s, t)],
                  t, E0("del")), t)

\* SESSION_STATE[recipient_key] = session_data
Persist(s, t) ==
    Emit([s EXCEPT !.store = s.sd[t], !.gone = "never"], t, E0("persist"))

\* Variant: the list keeps only the latest answer.
AppendAnswerLatest(s, t, i, q) ==
    Emit([s EXCEPT !.heap[s.sd[t]].answers =
                       <<[q |-> i, seq |-> q.seq, answer |-> s.ans[t]]>>],
         t, Ev("append", i, q.seq, s.ans[t]))

\* session_data["answers"].append({... "answer": user_answer, "seq": seq})
AppendAnswer(s, t, i, q) ==
    Emit([s EXCEPT !.heap[s.sd[t]].answers =
                       Append(@, [q |-> i, seq |-> q.seq, answer |-> s.ans[t]])],
         t, Ev("append", i, q.seq, s.ans[t]))

\* asyncio.to_thread(add_checkin_answers, checkin_id, [{"seq": seq, ...}])
PostAnswer(s, t, q) == Emit(s, t, Ev("post", 0, q.seq, s.ans[t]))

\* session_data["index"] = idx + 1
SetIndex(s, t) ==
    Emit([s EXCEPT !.heap[s.sd[t]].index = s.idx[t] + 1],
         t, Ev("index", s.idx[t] + 1, 0, <<>>))

\* Lines 69-123: build the summary prompt and call the LLM.  An emergency
\* record has no "answers" key (and may have no patient): the prompt cannot
\* be built and the exception leaves process_ai_answer.
BeginSummary(s, t) ==
    IF s.heap[s.sd[t]].status # "IN_QNA"
    THEN Raise(s, t)
    ELSE Goto(Emit(s, t, E0("llm")), t, "p_llm")

\* Lines 58-67: the next question, or the summary.  send_prompt sends nothing
\* for an empty text and returns at once; the record carries no
\* delivery_mode, so the mode is "text".
NextQuestion(s, t) ==
    LET rec       == s.heap[s.sd[t]]
        next_idx  == rec.index
        questions == rec.question_set
    IN  IF next_idx < Len(questions)
        THEN IF questions[next_idx + 1].question = ""
             THEN Ret(Persist(s, t), t)
             ELSE Goto(Emit(s, t, Ev("ask", next_idx, 0, <<>>)), t, "p_prompt")
        ELSE BeginSummary(s, t)

\* What a backend write meets: the request succeeds, the server answers
\* with an error status, or the request itself fails.
BackendOutcomes == {"ok", "http_error", "request_error"}

\* patient_api.add_checkin_answers, end_checkin_session and
\* update_checkin_analysis: raise_for_status turns an error status into an
\* HTTPError; every RequestException is caught and printed; the function
\* returns whether the write went through.
add_checkin_answers(out)     == out = "ok"
end_checkin_session(out)     == out = "ok"
update_checkin_analysis(out) == out = "ok"

\* The step after the post, were a failed post to end the handling.
AfterPostChecked(s, t, posted) ==
    IF posted THEN NextQuestion(SetIndex(s, t), t) ELSE Ret(s, t)

\* Lines 51-67: add_checkin_answers returned `posted`, which the await
\* discards; the index advances and the next question or the summary
\* follows.
AfterPostStep(s, t, posted) == NextQuestion(SetIndex(s, t), t)

\* Lines 229-256: end_checkin_session and update_checkin_analysis returned
\* `ended` and `patched`, both discarded; the record is deleted.
AfterFinalStep(s, t, ended, patched) == DelSessionState(s, t)

\* Variant: the index is advanced before the answer is posted.
RecordAnswerIndexFirst(s0, t) ==
    LET rec       == s0.heap[s0.sd[t]]
        questions == rec.question_set
        i         == rec.index
        s         == [s0 EXCEPT !.idx[t] = i]
    IN  IF i < Len(questions)
        THEN LET q  == questions[i + 1]
                 s1 == SetIndex(AppendAnswer(s, t, i, q), t)
             IN  IF rec.checkin_id
                 THEN Goto(PostAnswer(s1, t, q), t, "p_post")
                 ELSE NextQuestion(s1, t)
        ELSE NextQuestion(s, t)

\* Lines 31-56: record the answer for the current question.
RecordAnswer(s0, t) ==
    LET rec       == s0.heap[s0.sd[t]]
        questions == rec.question_set
        i         == rec.index
        s         == [s0 EXCEPT !.idx[t] = i]
    IN  IF i < Len(questions)
        THEN LET q  == questions[i + 1]
                 s1 == AppendAnswer(s, t, i, q)
             IN  IF rec.checkin_id
                 THEN Goto(PostAnswer(s1, t, q), t, "p_post")
                 ELSE NextQuestion(SetIndex(s1, t), t)
        ELSE NextQuestion(s, t)

\* Variant: a termination tells the backend that the check-in ended.
process_ai_answer_ending(s0, t, user_answer) ==
    LET s == [s0 EXCEPT !.sd[t] = s0.store, !.ans[t] = user_answer]
    IN  IF s.store = NoRef
        THEN Ret(Emit(s, t, E0("lost")), t)
        ELSE IF IsTermination(user_answer)
             THEN Goto(Emit(Emit(s, t, E0("ack")), t, E0("end_checkin")),
                       t, "p_term")
             ELSE RecordAnswer(s, t)

\* Lines 15-29: entry of process_ai_answer, up to its first await.
process_ai_answer(s0, t, user_answer) ==
    LET s == [s0 EXCEPT !.sd[t] = s0.store, !.ans[t] = user_answer]
    IN  IF s.store = NoRef
        THEN Ret(Emit(s, t, E0("lost")), t)
        ELSE IF IsTermination(user_answer)
             THEN Goto(Emit(s, t, E0("ack")), t, "p_term")
             ELSE RecordAnswer(s, t)

\* Lines 233-254: push the analysis payload.
PushAnalysis(s, t) ==
    LET rec == s.heap[s.sd[t]]
        rl  == risk_level(rec.patient_context.RiskLevel)
    IN  IF rec.checkin_id
        THEN Emit(s, t, Ev("analysis", risk_score(rl), 0,
                           <<severity(rl), medical_status(rl)>>))
        ELSE s

\* Lines 229-231: tell the backend the check-in ended.
EndCheckin(s, t) ==
    IF s.heap[s.sd[t]].patient_user_id
    THEN Emit(s, t, E0("end_checkin"))
    ELSE s

\* Variant: the analysis is pushed before the check-in is ended.
ComposeReplyAnalysisFirst(s, t, outcome) ==
    IF outcome = "not_object"
    THEN Raise(s, t)
    ELSE LET rl == risk_level(s.heap[s.sd[t]].patient_context.RiskLevel)
             s1 == Emit(s, t, Ev("reply", 0, 0, <<outcome, medical_status(rl)>>))
         IN  Goto(EndCheckin(PushAnalysis(s1, t), t), t, "p_final")

\* Lines 124-254: parse the summary, map the risk, send the reply, end the
\* check-in, push the analysis.  A JSON value that is not an object has no
\* .get: the exception leaves the step.  The three awaits (the reply, the two
\* backend calls) read and write nothing another coroutine shares, so they
\* are taken as one suspension before the final delete.
ComposeReply(s, t, outcome) ==
    IF outcome = "not_object"
    THEN Raise(s, t)
    ELSE LET rl == risk_level(s.heap[s.sd[t]].patient_context.RiskLevel)
             s1 == Emit(s, t, Ev("reply", 0, 0, <<outcome, medical_status(rl)>>))
         IN  Goto(PushAnalysis(EndCheckin(s1, t), t), t, "p_final")

----------------------------------------------------------------------------
\* Starting sessions, the chat router and the emergency follow-up router

\* start_ai_session, lines 228-238: a new dict replaces whatever the key held.
\* The awaits before it do not touch the store; the sends after it do not
\* either.
start_ai_session(s, patient, questions, checkin_id, patient_user_id) ==
    LET o == NewRef([s EXCEPT !.store = NoRef])
    IN  [s EXCEPT !.store = o, !.gone = "never",
                  !.heap[o] = [status |-> "IN_QNA",
                               question_set |-> questions,
                               index |-> 0,
                               answers |-> <<>>,
                               checkin_id |-> checkin_id,
                               patient_user_id |-> patient_user_id,
                               patient_context |-> patient,
                               heard |-> <<>>]]

\* What json.loads of the triage LLM's text gives: nothing (an exception:
\* the summary is {}), a JSON value that is not an object, or an object, of
\* which the code reads triage_level (a string, absent as the empty string,
\* or not a string), brief_assessment and first_aid_advice (there or not).
Triage(parsed, level, brief, advice) ==
    [parsed |-> parsed, level |-> level, brief |-> brief, advice |-> advice]
TriageLevels ==
    {<<>>, <<"l","o","w">>, <<"S","e","v","e","r","e">>, <<"u","r","g","e","n","t">>,
     <<"C","R","I","T","I","C","A","L">>, <<"s","e","v","e","r","e"," ">>}
Triages ==
    {Triage("fail", <<>>, FALSE, FALSE), Triage("not_object", <<>>, FALSE, FALSE),
     Triage("level_not_string", <<>>, TRUE, TRUE)}
        \cup {Triage("object", l, TRUE, TRUE) : l \in TriageLevels}
        \cup {Triage("object", <<"l","o","w">>, b, FALSE) : b \in BOOLEAN}
        \cup {Triage("object", <<"u","r","g","e","n","t">>, FALSE, TRUE)}

\* triage in ['severe', 'critical', 'urgent']
HighTriage ==
    {<<"s","e","v","e","r","e">>, <<"c","r","i","t","i","c","a","l">>,
     <<"u","r","g","e","n","t">>}

\* start_emergency_session, lines 38-63: the EMERGENCY record (no
\* question_set, index or answers key), the reply, and the high alert.
\* summary.get raises on a summary that is not an object, .lower() on a
\* triage_level that is not a string.
start_emergency_session(s, t, tr) ==
    LET o  == NewRef([s EXCEPT !.store = NoRef])
        s1 == Emit([s EXCEPT !.store = o, !.gone = "never",
                             !.heap[o] = [Free EXCEPT !.status = "EMERGENCY"]],
                   t, Ev("emergency", 0, 0, <<tr>>))
        s2 == Emit(s1, t, Ev("triage_reply", 0, 0,
                             <<IF tr.brief THEN "brief" ELSE "describe",
                               IF tr.advice THEN "advice" ELSE "">>))
    IN  IF tr.parsed = "not_object"
        THEN Raise(s1, t)
        ELSE IF tr.parsed = "level_not_string"
        THEN Raise(s2, t)
        ELSE IF Lower(tr.level) \in HighTriage
        THEN Ret(Emit(s2, t, E0("high_alert")), t)
        ELSE Ret(s2, t)

EmergencyKeywords ==
    {<<"h","e","l","p">>, <<"e","m","e","r","g","e","n","c","y">>,
     <<"u","r","g","e","n","t">>, <<"b","l","e","e","d","i","n","g">>,
     <<"c","h","e","s","t">>, <<"b","r","e","a","t","h">>,
     <<"p","a","i","n">>, <<"9","1","1">>}

\* has_emergency_signal: a keyword in the lowered text, or a photo / voice
\* attachment.
has_emergency_signal(m, text) ==
    \/ \E k \in EmergencyKeywords : Contains(Lower(text), k)
    \/ m.media \in {"photo", "voice"}

LocationKeywords ==
    {<<"l","o","c","a","t","i","o","n">>, <<"a","d","d","r","e","s","s">>}

\* process_emergency_message taking any attachment for a shared location.
process_emergency_message_any(s, t, m) ==
    IF m.media # "none"
    THEN Goto(Emit(s, t, Ev("location_received", 0, 0, <<m>>)), t, "e_loc")
    ELSE IF \E k \in LocationKeywords : Contains(Lower(m.text), k)
         THEN Ret(Emit(s, t, Ev("share_location", 0, 0, <<m>>)), t)
         ELSE Ret(Emit(s, t, Ev("holding", 0, 0, <<m>>)), t)

\* process_emergency_message: a shared location sends the confirmation and
\* then deletes the record; anything else only replies.  Every event
\* carries the message that was handled.
process_emergency_message(s, t, m) ==
    IF m.media = "geo"
    THEN Goto(Emit(s, t, Ev("location_received", 0, 0, <<m>>)), t, "e_loc")
    ELSE IF \E k \in LocationKeywords : Contains(Lower(m.text), k)
         THEN Ret(Emit(s, t, Ev("share_location", 0, 0, <<m>>)), t)
         ELSE Ret(Emit(s, t, Ev("holding", 0, 0, <<m>>)), t)

\* The router testing the emergency signal ahead of the status.
handle_new_message_signal_first(s, t, m) ==
    LET text        == Strip(m.text)
        state_value == IF s.store = NoRef THEN "none" ELSE s.heap[s.store].status
    IN  IF has_emergency_signal(m, text) /\ state_value # "EMERGENCY"
        THEN Goto(s, t, "h_entity")
        ELSE CASE state_value = "IN_QNA" ->
                    IF text = <<>>
                    THEN Ret(Emit(s, t, E0("please_reply")), t)
                    ELSE process_ai_answer(s, t, text)
               [] state_value = "EMERGENCY" -> process_emergency_message(s, t, m)
               [] OTHER -> Ret(Emit(s, t, E0("cannot_start")), t)

\* handle_new_message, lines 49-142, for a private message (no record ever
\* has status WAITING_CONSENT: nothing sets it; a photo is no voice note).
\* An emergency signal suspends at client.get_entity, then at
\* client.download_media for a photo, before the record is written.
handle_new_message(s, t, m) ==
    LET text        == Strip(m.text)
        state_value == IF s.store = NoRef THEN "none" ELSE s.heap[s.store].status
    IN  CASE state_value = "IN_QNA" ->
                IF text = <<>>
                THEN Ret(Emit(s, t, E0("please_reply")), t)
                ELSE process_ai_answer(s, t, text)
          [] state_value = "EMERGENCY" -> process_emergency_message(s, t, m)
          [] OTHER ->
                IF has_emergency_signal(m, text)
                THEN Goto(s, t, "h_entity")
                ELSE Ret(Emit(s, t, E0("cannot_start")), t)

\* The answer the patient gave while question i was the current one: what the
\* record was told, kept beside what the engine recorded.
Hear(s, text) ==
    IF /\ s.store # NoRef
       /\ text \in AnswerTextsOf(TRUE)
       /\ s.heap[s.store].status = "IN_QNA"
       /\ s.heap[s.store].index < Len(s.heap[s.store].question_set)
    THEN [s EXCEPT !.heap[s.store].heard =
                       Append(@, [q |-> s.heap[s.store].index, answer |-> text])]
    ELSE s

----------------------------------------------------------------------------
\* The call-mode runner: run_call_qna

\* EndCall that also drops the key's record.
EndCallDrop(s, t) == Goto([s EXCEPT !.fails = 0, !.store = NoRef], t, "r_end")

\* end_call_via_service is awaited after the loop.
EndCall(s, t) == Goto([s EXCEPT !.fails = 0], t, "r_end")

\* NoTranscript with one more attempt.
NoTranscriptFour(s, t) ==
    LET s1 == [s EXCEPT !.fails = @ + 1,
                        !.runner = [asking |-> 0, said |-> <<"couldnt_hear">>]]
    IN  IF s1.fails >= 4
        THEN EndCall([s1 EXCEPT !.runner.said = Append(@, "answer_in_chat")], t)
        ELSE Goto(s1, t, "r_sleep")

\* Lines 101-114: no transcript.
NoTranscript(s, t) ==
    LET s1 == [s EXCEPT !.fails = @ + 1,
                        !.runner = [asking |-> 0, said |-> <<"couldnt_hear">>]]
    IN  IF s1.fails >= 3
        THEN EndCall([s1 EXCEPT !.runner.said = Append(@, "answer_in_chat")], t)
        ELSE Goto(s1, t, "r_sleep")

\* An execution of run_call_qna begins or is over: no ask is counted.
NoAsks(s) == [s EXCEPT !.asks = IF @ < 0 THEN @ ELSE 0]

\* ask_via_call sends its request: one more ask of this execution.
Ask(s, position) ==
    [s EXCEPT !.runner.asking = position,
              !.asks = IF 0 <= @ /\ @ < MaxAsks THEN @ + 1 ELSE @]

\* RunnerLoop asking the first question whatever the index is.
RunnerLoopFirst(s0, t) ==
    LET s == [s0 EXCEPT !.runner = Quiet]
    IN  IF s.store = NoRef
        THEN EndCall(s, t)
        ELSE LET state == s.heap[s.store]
             IN  IF state.status # "IN_QNA"
                 THEN EndCall(s, t)
                 ELSE IF state.index >= Len(state.question_set)
                      THEN EndCall(s, t)
                      ELSE IF state.question_set[1].question = ""
                           THEN NoTranscript(s, t)
                           ELSE Goto(Ask(s, 1), t, "r_ask")

\* Lines 88-99: one pass from the top of the loop to the ask request.  The
\* runner uses nothing of `state` after it has taken the question text, so
\* it holds no reference here.  ask_via_call returns (None, error) at once,
\* without a request, for an empty question text.
RunnerLoop(s0, t) ==
    LET s == [s0 EXCEPT !.runner = Quiet]
    IN  IF s.store = NoRef
        THEN EndCall(s, t)
        ELSE LET state == s.heap[s.store]
             IN  IF state.status # "IN_QNA"
                 THEN EndCall(s, t)
                 ELSE IF state.index >= Len(state.question_set)
                      THEN EndCall(s, t)
                      ELSE IF state.question_set[state.index + 1].question = ""
                           THEN NoTranscript(s, t)
                           ELSE Goto(Ask(s, state.index + 1), t, "r_ask")

Transcripts == {<<>>, T_fine, T_STOP}

----------------------------------------------------------------------------
\* Actions

\* start_ai_session runs, called with arguments it declares (as the consent
\* path calls it, message_handler.py line 85).
StartAiSession ==
    /\ Running
    /\ serial => \A t \in Tasks : ~InHandler(pc[t])
    /\ FreeSlots([Cur EXCEPT !.store = NoRef]) # {}
    /\ Apply(start_ai_session(Cur, PatientData(input.RiskLevel),
                              input.question_set, input.checkin_id,
                              input.patient_user_id))

HandleNewMessage ==
    \E m \in ChatMessagesOf(serial) :
        /\ Running
        /\ pc["chat"] = "idle"
        /\ MayBegin("chat")
        /\ Apply(handle_new_message(Hear(Cur, Strip(m.text)), "chat", m))

\* client.get_entity returned: the emergency session starts.
StartEmergencySession ==
    /\ Running
    /\ pc["chat"] = "h_entity"
    /\ FreeSlots([Cur EXCEPT !.store = NoRef]) # {}
    /\ \E tr \in Triages : Apply(start_emergency_session(Cur, "chat", tr))

\* The location confirmation was sent: del SESSION_STATE[key].
LocationDelete ==
    /\ Running
    /\ pc["chat"] = "e_loc"
    /\ Apply(DelSessionState(Cur, "chat"))

\* The acknowledgement was sent: del SESSION_STATE[recipient_key].
TermDelete(t) ==
    /\ Running
    /\ pc[t] = "p_term"
    /\ Apply(DelSessionState(Cur, t))

\* add_checkin_answers returned.
AfterPost(t) ==
    /\ Running
    /\ pc[t] = "p_post"
    /\ \E out \in BackendOutcomes :
          Apply(AfterPostStep(Cur, t, add_checkin_answers(out)))

\* send_prompt returned.
AfterPrompt(t) ==
    /\ Running
    /\ pc[t] = "p_prompt"
    /\ Apply(Ret(Persist(Cur, t), t))

\* The summary LLM call returned.
AfterLlm(t) ==
    /\ Running
    /\ pc[t] = "p_llm"
    /\ \E outcome \in SummaryOutcomes : Apply(ComposeReply(Cur, t, outcome))

\* The reply and the backend calls returned: del SESSION_STATE[recipient_key].
AfterFinal(t) ==
    /\ Running
    /\ pc[t] = "p_final"
    /\ \E e \in BackendOutcomes, u \in BackendOutcomes :
          Apply(AfterFinalStep(Cur, t, end_checkin_session(e),
                               update_checkin_analysis(u)))

\* The handler is over: the chat task waits for the next update; the runner
\* sleeps and loops, or is dead when the exception went through it.
Return(t) ==
    /\ pc[t] \in {"ret", "raised"}
    /\ Apply([Cur EXCEPT !.pc[t] = IF t = "chat" THEN "idle"
                                   ELSE IF pc[t] = "ret" THEN "r_sleep"
                                   ELSE "r_dead",
                         !.sd[t] = NoRef, !.idx[t] = 0, !.ans[t] = <<>>,
                         !.trace[t] = <<>>])

RunCallQna ==
    /\ Running
    /\ pc["call"] \in {"r_off", "r_dead"}
    /\ Apply(RunnerLoop(NoAsks([Cur EXCEPT !.fails = 0]), "call"))

RunnerWake ==
    /\ Running
    /\ pc["call"] = "r_sleep"
    /\ Apply(RunnerLoop(Cur, "call"))

AskReturn ==
    /\ Running
    /\ pc["call"] = "r_ask"
    /\ \E transcript \in Transcripts :
        IF transcript = <<>>
        THEN Apply(NoTranscript(Cur, "call"))
        ELSE /\ MayBegin("call")
             /\ Apply(process_ai_answer(
                        Hear([Cur EXCEPT !.fails = 0, !.runner = Quiet], transcript),
                        "call", transcript))

\* end_call_via_service returned: run_call_qna is over.
RunnerEnd ==
    /\ Running
    /\ pc["call"] = "r_end"
    /\ Apply(NoAsks([Cur EXCEPT !.pc["call"] = "r_off", !.fails = 0,
                                !.runner = Quiet]))

Next ==
    \/ StartAiSession
    \/ HandleNewMessage
    \/ StartEmergencySession
    \/ LocationDelete
    \/ \E t \in Tasks : TermDelete(t)
    \/ \E t \in Tasks : AfterPost(t)
    \/ \E t \in Tasks : AfterPrompt(t)
    \/ \E t \in Tasks : AfterLlm(t)
    \/ \E t \in Tasks : AfterFinal(t)
    \/ \E t \in Tasks : Return(t)
    \/ RunCallQna
    \/ RunnerWake
    \/ AskReturn
    \/ RunnerEnd

\* Any interleaving of the chat handler, the runner and the trigger.
Spec == Init /\ [][Next]_vars

\* The same program under single-consumer-per-key dispatch.
SpecSeq == InitSeq /\ [][Next]_vars

\* The asks of run_call_qna counted, handlers interleaving, for a check-in
\* with an id and one or two regular questions.
InitAsk ==
    /\ store = NoRef
    /\ heap = [o \in Refs |-> Free]
    /\ pc = [t \in Tasks |-> IF t = "chat" THEN "idle" ELSE "r_off"]
    /\ sd = [t \in Tasks |-> NoRef]
    /\ idx = [t \in Tasks |-> 0]
    /\ ans = [t \in Tasks |-> <<>>]
    /\ trace = [t \in Tasks |-> <<>>]
    /\ fails = 0
    /\ gone = "never"
    /\ input \in {i \in Inputs : /\ i.RiskLevel = R_low
                                 /\ i.checkin_id /\ i.patient_user_id
                                 /\ i.question_set # <<>>
                                 /\ \A k \in 1..Len(i.question_set) :
                                       i.question_set[k] = Regular(k)}
    /\ serial = FALSE
    /\ env = NoKeys
    /\ fn = Idle
    /\ runner = Quiet
    /\ second = NotRun
    /\ asks = 0

\* No execution of run_call_qna is under way.
NoExecution == pc["call"] \in {"r_off", "r_dead"}

\* The program with no session started for the key while run_call_qna
\* executes.
NextAsk ==
    \/ NoExecution /\ StartAiSession
    \/ HandleNewMessage
    \/ NoExecution /\ StartEmergencySession
    \/ LocationDelete
    \/ \E t \in Tasks : TermDelete(t)
    \/ \E t \in Tasks : AfterPost(t)
    \/ \E t \in Tasks : AfterPrompt(t)
    \/ \E t \in Tasks : AfterLlm(t)
    \/ \E t \in Tasks : AfterFinal(t)
    \/ \E t \in Tasks : Return(t)
    \/ RunCallQna
    \/ RunnerWake
    \/ AskReturn
    \/ RunnerEnd

SpecAsk == InitAsk /\ [][NextAsk]_vars

----------------------------------------------------------------------------
\* Two invocations of run_call_qna for one key

\* The two invocations change places: the locals of the other one become the
\* ones the runner's code works on.
Swap(s) ==
    [s EXCEPT !.pc["call"] = s.second.pc,
              !.fails      = s.second.fails,
              !.runner     = s.second.runner,
              !.second     = [pc |-> s.pc["call"], fails |-> s.fails,
                              runner |-> s.runner]]

\* run_call_qna is called while an earlier call of it may still be looping:
\* nothing in it looks for another loop.
RunCallQnaAgain ==
    /\ Running
    /\ second.pc \in {"r_off", "r_dead"}
    /\ Apply(Swap(RunnerLoop([Swap(Cur) EXCEPT !.fails = 0], "call")))

RunnerWakeAgain ==
    /\ Running
    /\ second.pc = "r_sleep"
    /\ Apply(Swap(RunnerLoop(Swap(Cur), "call")))

\* The other invocation's ask returns.  With a transcript it enters
\* process_ai_answer and is from then on the invocation whose handler the
\* "call" task runs.
AskReturnAgain ==
    /\ Running
    /\ second.pc = "r_ask"
    /\ \E transcript \in Transcripts :
        IF transcript = <<>>
        THEN Apply(Swap(NoTranscript(Swap(Cur), "call")))
        ELSE /\ MayBegin("call")
             /\ ~InHandler(pc["call"])
             /\ Apply(process_ai_answer(
                        Hear([Swap(Cur) EXCEPT !.fails = 0, !.runner = Quiet],
                             transcript),
                        "call", transcript))

RunnerEndAgain ==
    /\ Running
    /\ second.pc = "r_end"
    /\ Apply([Cur EXCEPT !.second = NotRun])

NextTwo ==
    \/ Next
    \/ RunCallQnaAgain
    \/ RunnerWakeAgain
    \/ AskReturnAgain
    \/ RunnerEndAgain

\* Sessions of patients with a user id and a check-in id of baseline risk low.
InitTwo ==
    /\ store = NoRef
    /\ heap = [o \in Refs |-> Free]
    /\ pc = [t \in Tasks |-> IF t = "chat" THEN "idle" ELSE "r_off"]
    /\ sd = [t \in Tasks |-> NoRef]
    /\ idx = [t \in Tasks |-> 0]
    /\ ans = [t \in Tasks |-> <<>>]
    /\ trace = [t \in Tasks |-> <<>>]
    /\ fails = 0
    /\ gone = "never"
    /\ input \in {i \in Inputs : /\ i.RiskLevel = R_low
                                 /\ i.checkin_id
                                 /\ i.patient_user_id}
    /\ serial = TRUE
    /\ env = NoKeys
    /\ fn = Idle
    /\ runner = Quiet
    /\ second = NotRun
    /\ asks = -1

\* Serial dispatch of the handlers, and no limit on calls of run_call_qna.
SpecTwo == InitTwo /\ [][NextTwo]_vars

----------------------------------------------------------------------------
\* Provider chains: ai_client/

\* What one request to a backend comes back with.
LocalSttOutcomes    == {"transcript", "empty", "request_error", "non_json", "not_object"}
DeepgramSttOutcomes == {"transcript", "empty", "request_error", "malformed"}
LlmOutcomes         == {"content", "error"}
HfOutcomes          == {"audio", "empty_audio", "loading", "gone", "http_error", "non_audio"}
DeepgramTtsOutcomes == {"audio", "request_error"}

\* stt_client._call_local_whisper: a request error and a body that is not
\* JSON are caught; payload.get on a JSON body that is not an object is
\* outside the try.
call_local_whisper(out) ==
    CASE out = "request_error" -> Call("local", <<"local">>, "none", "Local STT request failed")
      [] out = "non_json"      -> Call("local", <<"local">>, "none", "Local STT returned a non-JSON response")
      [] out = "not_object"    -> Raised("local", <<"local">>)
      [] out = "empty"         -> Call("local", <<"local">>, "none", "Local STT could not transcribe this audio")
      [] OTHER                 -> Call("local", <<"local">>, "transcript", "none")

\* deepgram_client.transcribe_audio_bytes
deepgram_stt(e, out) ==
    IF ~e.DEEPGRAM_API_KEY
    THEN Call("deepgram", <<>>, "none", "Deepgram API key not configured")
    ELSE CASE out = "request_error" -> Call("deepgram", <<"deepgram">>, "none", "Deepgram request failed")
           [] out = "malformed"     -> Raised("deepgram", <<"deepgram">>)
           [] out = "empty"         -> Call("deepgram", <<"deepgram">>, "none", "Deepgram could not transcribe this audio")
           [] OTHER                 -> Call("deepgram", <<"deepgram">>, "transcript", "none")

\* stt_client.transcribe_audio_bytes
transcribe_audio_bytes(e, lo, do) ==
    LET op    == "transcribe_audio_bytes"
        local == call_local_whisper(lo)
        cloud == deepgram_stt(e, do)
    IN  IF e.STT_API_URL /\ local.raised
        THEN Raised(op, local.calls)
        ELSE IF e.STT_API_URL /\ (local.value # "none" \/ ~e.DEEPGRAM_API_KEY)
        THEN Call(op, local.calls, local.value, local.error)
        ELSE LET before == IF e.STT_API_URL THEN local.calls ELSE <<>>
             IN  IF e.DEEPGRAM_API_KEY
                 THEN IF cloud.raised
                      THEN Raised(op, before \o cloud.calls)
                      ELSE Call(op, before \o cloud.calls, cloud.value, cloud.error)
                 ELSE Call(op, before, "none",
                           "No STT backend configured. Set STT_API_URL or DEEPGRAM_API_KEY.")

\* groq_client.generate_ai_chat_response and generate_emergency_json: the
\* dict they return has one key, text, whatever happened.
groq_generate(e, out) ==
    IF ~e.GROQ_API_KEY
    THEN Call("groq", <<>>, "Groq API key not configured.", "none")
    ELSE IF out = "content"
         THEN Call("groq", <<"groq">>, "content", "none")
         ELSE Call("groq", <<"groq">>, "Groq API error", "none")

\* gemini_client.generate_ai_chat_response
gemini_generate_ai_chat_response(e, out) ==
    IF ~e.GEMINI_API_KEY
    THEN Call("gemini", <<>>, "Gemini client is not initialized. Cannot generate response.", "none")
    ELSE IF out = "content"
         THEN Call("gemini", <<"gemini">>, "content", "none")
         ELSE Call("gemini", <<"gemini">>,
                   "I apologize, but I encountered an error. Please try responding again.", "none")

\* gemini_client.generate_emergency_json
gemini_generate_emergency_json(e, out) ==
    IF ~e.GEMINI_API_KEY
    THEN Call("gemini", <<>>, "Gemini client is not initialized. Cannot generate response.", "none")
    ELSE IF out = "content"
         THEN Call("gemini", <<"gemini">>, "content", "none")
         ELSE Call("gemini", <<"gemini">>,
                   "I apologize, but I encountered an error. Please try again.", "none")

\* llm_client._backend
backend(e) ==
    IF e.GROQ_API_KEY THEN "groq"
    ELSE IF e.GEMINI_API_KEY THEN "gemini"
    ELSE "gemini"

\* llm_client.generate_ai_chat_response
generate_ai_chat_response(e, go, mo) ==
    LET r == IF backend(e) = "groq" THEN groq_generate(e, go)
             ELSE IF backend(e) = "gemini" THEN gemini_generate_ai_chat_response(e, mo)
             ELSE Call("none", <<>>,
                       "No AI backend configured. Please set GROQ_API_KEY or GEMINI_API_KEY.", "none")
    IN  Call("generate_ai_chat_response", r.calls, r.value, r.error)

\* llm_client.generate_emergency_json
generate_emergency_json(e, go, mo) ==
    LET r == IF backend(e) = "groq" THEN groq_generate(e, go)
             ELSE IF backend(e) = "gemini" THEN gemini_generate_emergency_json(e, mo)
             ELSE Call("none", <<>>,
                       "No AI backend configured. Please set GROQ_API_KEY or GEMINI_API_KEY.", "none")
    IN  Call("generate_emergency_json", r.calls, r.value, r.error)

\* tts_client.HF_FALLBACK_MODELS
HF_FALLBACK_MODELS ==
    <<"facebook/mms-tts-eng", "espnet/kan-bayashi_ljspeech_fastspeech",
      "espnet/kan-bayashi_ljspeech_vits">>

\* The list with the built-in models ahead of the configured one.
HfModelsFallbackFirst(e) ==
    LET last == IF e.HF_TTS_MODEL # "" THEN <<e.HF_TTS_MODEL>> ELSE <<>>
    IN  SelectSeq(HF_FALLBACK_MODELS, LAMBDA m : m # e.HF_TTS_MODEL) \o last

\* _hf_tts, its first lines: the configured model, then every fallback model
\* that is not in the list yet.
HfModels(e) ==
    LET first == IF e.HF_TTS_MODEL # "" THEN <<e.HF_TTS_MODEL>> ELSE <<>>
    IN  first \o SelectSeq(HF_FALLBACK_MODELS, LAMBDA m : m # e.HF_TTS_MODEL)

\* _hf_tts, its loop from model k on; outs[k] is what model k answers.
RECURSIVE HfLoop(_, _, _, _, _)
HfLoop(models, outs, k, calls, last_err) ==
    IF k > Len(models)
    THEN Call("hf", calls, "none",
              IF last_err = "none" THEN "Hugging Face TTS failed." ELSE last_err)
    ELSE LET asked == Append(calls, models[k])
         IN  CASE outs[k] = "audio"       -> Call("hf", asked, "audio", "none")
               [] outs[k] = "empty_audio" -> Call("hf", asked, "empty_audio", "none")
               [] outs[k] = "loading"     -> HfLoop(models, outs, k + 1, asked, "model is loading")
               [] outs[k] = "gone"        -> HfLoop(models, outs, k + 1, asked, "model is unavailable (410)")
               [] outs[k] = "http_error"  -> HfLoop(models, outs, k + 1, asked, "Hugging Face TTS failed for model")
               [] OTHER                   -> HfLoop(models, outs, k + 1, asked, "non-audio response")

hf_tts(e, outs) == HfLoop(HfModels(e), outs, 1, <<>>, "none")

\* deepgram_client.synthesize_speech
deepgram_tts(e, out) ==
    IF ~e.DEEPGRAM_API_KEY
    THEN Call("deepgram", <<>>, "none", "Deepgram API key not configured")
    ELSE IF out = "audio"
         THEN Call("deepgram", <<"deepgram">>, "audio", "none")
         ELSE Call("deepgram", <<"deepgram">>, "none", "Deepgram TTS failed")

\* synthesize_speech going on to Deepgram when Hugging Face gave no audio.
synthesize_speech_fallback(e, outs, do) ==
    LET op == "synthesize_speech"
        hf == hf_tts(e, outs)
        dg == deepgram_tts(e, do)
    IN  IF e.HF_TTS_TOKEN /\ hf.value = "audio"
        THEN Call(op, hf.calls, "audio", "none")
        ELSE LET before == IF e.HF_TTS_TOKEN THEN hf.calls ELSE <<>>
             IN  IF e.DEEPGRAM_API_KEY
                 THEN Call(op, before \o dg.calls, dg.value, dg.error)
                 ELSE Call(op, before, "none", "No TTS backend configured.")

\* tts_client.synthesize_speech: `if audio` is false for empty bytes.
synthesize_speech(e, outs, do) ==
    LET op == "synthesize_speech"
        hf == hf_tts(e, outs)
        dg == deepgram_tts(e, do)
    IN  IF e.HF_TTS_TOKEN
        THEN IF hf.value = "audio"
             THEN Call(op, hf.calls, "audio", "none")
             ELSE Call(op, hf.calls, "none",
                       IF hf.error = "none" THEN "Hugging Face TTS failed." ELSE hf.error)
        ELSE IF e.DEEPGRAM_API_KEY
        THEN Call(op, dg.calls, dg.value, dg.error)
        ELSE Call(op, <<>>, "none",
                  "No TTS backend configured. Set HF_TTS_TOKEN (preferred) or DEEPGRAM_API_KEY.")

----------------------------------------------------------------------------
\* Question generation: start_ai_session, up to the list it stores

StartsWith(s, p) == Len(s) >= Len(p) /\ SubSeq(s, 1, Len(p)) = p

\* [\s,]* from position k on: the position after the run.
RECURSIVE SkipSeparators(_, _)
SkipSeparators(s, k) ==
    IF k <= Len(s) /\ s[k] \in {" ", ","} THEN SkipSeparators(s, k + 1) ELSE k

Greetings == <<<<"h","i">>, <<"h","e","l","l","o">>, <<"h","e","y">>>>

\* m.end() of ^(hi|hello|hey)[\s,]*<name>[\s,]* on the lowered text, 0 for
\* no match; with an empty name this is the second pattern.
GreetingEnd(lower, name) ==
    LET ks == {k \in 1..Len(Greetings) : StartsWith(lower, Greetings[k])}
    IN  IF ks = {} THEN 0
        ELSE LET g    == Greetings[CHOOSE k \in ks : \A j \in ks : k <= j]
                 a    == SkipSeparators(lower, Len(g) + 1)
                 rest == SubSeq(lower, a, Len(lower))
             IN  IF StartsWith(rest, name)
                 THEN SkipSeparators(lower, a + Len(name)) - 1
                 ELSE 0

\* _strip_greeting, for texts that do not open with one of the check-in
\* phrases of its last three patterns.
strip_greeting(text, patient_name) ==
    IF text = <<>> THEN text
    ELSE LET t     == Strip(text)
             lower == Lower(t)
             pname == Lower(Strip(patient_name))
             m1    == GreetingEnd(lower, pname)
             m2    == GreetingEnd(lower, <<>>)
             end   == IF m1 > 0 THEN m1 ELSE m2
         IN  Strip(SubSeq(t, end + 1, Len(t)))

PatientName == <<"A","l","i">>

Q_plain    == <<"P","a","i","n","?">>
Q_hi       == <<"H","i",","," ","A","l","i",","," ","p","a","i","n","?">>
Q_hey      == <<"H","e","y"," ">>

\* An item of the LLM's list: a JSON object whose seq is a number or absent
\* (0) and whose question is a string, absent, or not a string; or a JSON
\* value that is not an object.
Item(seq, kind, text) == [obj |-> TRUE, seq |-> seq, question |-> kind, text |-> text]
NotAnObject == [obj |-> FALSE, seq |-> 0, question |-> "absent", text |-> <<>>]
RawItems ==
    {Item(0, "string", Q_plain), Item(0, "string", Q_hi), Item(0, "string", Q_hey),
     Item(1, "string", Q_plain), Item(0, "absent", <<>>), Item(0, "number", <<>>),
     NotAnObject}

\* What the LLM answered: no text, empty text, a code fence around nothing,
\* text that is not JSON, JSON that is not an object, an object without
\* check_in_questions, a check_in_questions that is not a list, or a list.
Response(kind, items) == [kind |-> kind, items |-> items]
Responses ==
    {Response(k, <<>>) : k \in {"none", "empty", "fence_only", "not_json",
                                "not_object", "no_key", "not_list"}}
        \cup {Response("list", items) :
                items \in UNION {[1..n -> RawItems] : n \in 0..MaxQuestions}}

\* The item as the loop leaves it: q["seq"] = q.get("seq", idx), q["question"]
\* = _strip_greeting(q.get("question", ""), patient_name).
BuiltItem(q, i) ==
    [seq      |-> IF q.seq # 0 THEN q.seq ELSE i,
     question |-> IF strip_greeting(q.text, PatientName) = <<>> THEN "" ELSE "Q"]

\* q.get raises on an item that is not an object, text.strip on a question
\* that is not a string.
ItemRaises(q) == ~q.obj \/ q.question = "number"

\* start_ai_session, from the LLM's text to the end of the loop over the
\* questions.  The try block ends before the loop.
BuildQuestions(resp) ==
    LET questions == IF resp.kind = "list" THEN resp.items ELSE <<>>
    IN  IF \E i \in 1..Len(questions) : ItemRaises(questions[i])
        THEN [raised |-> TRUE, questions |-> <<>>]
        ELSE [raised |-> FALSE,
              questions |-> [i \in 1..Len(questions) |-> BuiltItem(questions[i], i)]]

\* The text of the chain's result as the step reads it: a backend's content
\* is the LLM's answer, any other text is a message that is not JSON.
ResponseOf(r, resp) == IF r.value = "content" THEN resp ELSE Response("not_json", <<>>)

----------------------------------------------------------------------------
\* The listen window: call_mode_runner._dynamic_listen_seconds

Min(a, b) == IF a <= b THEN a ELSE b
Max(a, b) == IF a >= b THEN a ELSE b

\* The window without its upper bound.
dynamic_listen_seconds_open(len, base, per_cent, min_sec, max_sec) ==
    Max(min_sec, base + (len * per_cent) \div 100)

\* max(min_sec, min(max_sec, base + int(len(text) * per_char))), the rate
\* given in hundredths of a second per character: int(n * 0.04) and
\* int(n * 0.05) in floating point are (4n) div 100 and (5n) div 100.
dynamic_listen_seconds(len, base, per_cent, min_sec, max_sec) ==
    Max(min_sec, Min(max_sec, base + (len * per_cent) \div 100))

\* listen_seconds as callers of ask_via_call pass it.
ListenArgs == {0, 7, 10, 30}

\* call_mode_runner.ask_via_call, up to its request: nothing is sent for an
\* empty prompt; otherwise listen_seconds is computed anew from the prompt.
\* It reads none of the chains' keys, so one configuration stands for all.
AskViaCall ==
    /\ fn.op = "idle"
    /\ env = NoKeys
    /\ \E len \in 0..MaxPromptLen, listen_seconds \in ListenArgs :
          fn' = IF len = 0
                THEN [Call("ask_via_call", <<>>, "none", "Missing username or prompt.")
                        EXCEPT !.window = [len |-> len, arg |-> listen_seconds,
                                           sent |-> 0]]
                ELSE [Call("ask_via_call", <<"call_service">>, "none", "none")
                        EXCEPT !.window =
                            [len  |-> len, arg |-> listen_seconds,
                             sent |-> dynamic_listen_seconds(len, 7, 4, 7, 20)]]
    /\ UNCHANGED <<store, heap, pc, sd, idx, ans, trace, fails, gone, input,
                   serial, env, runner, second, asks>>

----------------------------------------------------------------------------
\* Calls of the chains, one per behaviour

\* start_ai_session asks the LLM chain for questions and builds the list.
GenerateQuestions ==
    /\ fn.op = "idle"
    /\ \E go \in LlmOutcomes, mo \in LlmOutcomes, resp \in Responses :
          LET r == generate_ai_chat_response(env, go, mo)
              b == BuildQuestions(ResponseOf(r, resp))
          IN  fn' = [r EXCEPT !.op = "questions", !.raised = b.raised,
                              !.args = <<go, mo>>, !.resp = resp,
                              !.questions = b.questions]
    /\ UNCHANGED <<store, heap, pc, sd, idx, ans, trace, fails, gone, input,
                   serial, env, runner, second, asks>>

\* process_ai_answer asks for the final summary.
GenerateSummary ==
    /\ fn.op = "idle"
    /\ \E mo \in LlmOutcomes :
          fn' = [gemini_generate_ai_chat_response(env, mo) EXCEPT
                    !.op = "summary", !.args = <<mo>>]
    /\ UNCHANGED <<store, heap, pc, sd, idx, ans, trace, fails, gone, input,
                   serial, env, runner, second, asks>>

\* The emergency handler asks the structured chain.
GenerateEmergencyJson ==
    /\ fn.op = "idle"
    /\ \E go \in LlmOutcomes, mo \in LlmOutcomes :
          fn' = [generate_emergency_json(env, go, mo) EXCEPT !.args = <<go, mo>>]
    /\ UNCHANGED <<store, heap, pc, sd, idx, ans, trace, fails, gone, input,
                   serial, env, runner, second, asks>>

\* A voice message is transcribed.
TranscribeAudioBytes ==
    /\ fn.op = "idle"
    /\ \E lo \in LocalSttOutcomes, do \in DeepgramSttOutcomes :
          fn' = [transcribe_audio_bytes(env, lo, do) EXCEPT !.args = <<lo, do>>]
    /\ UNCHANGED <<store, heap, pc, sd, idx, ans, trace, fails, gone, input,
                   serial, env, runner, second, asks>>

\* A reply is spoken.
SynthesizeSpeech ==
    /\ fn.op = "idle"
    /\ \E outs \in [1..Len(HfModels(env)) -> HfOutcomes], do \in DeepgramTtsOutcomes :
          fn' = [synthesize_speech(env, outs, do) EXCEPT !.args = outs \o <<do>>]
    /\ UNCHANGED <<store, heap, pc, sd, idx, ans, trace, fails, gone, input,
                   serial, env, runner, second, asks>>

\* The keyword arguments start_ai_session declares (start_ai.py lines
\* 111-116) and the ones send_checkin_for_patient_id passes (main.py lines
\* 66-71).  Python binds a call only when every keyword passed is declared.
StartAiSessionKeywords ==
    {"checkin_id", "patient_user_id", "prior_checkins", "vital_readings",
     "intro_message"}
TriggerKeywords ==
    {"checkin_id", "patient_user_id", "prior_checkins", "vital_readings",
     "intro_message", "delivery_mode"}

DeliveryModes == {"text", "call"}

\* A Python bool as it prints.
PyBool(b) == IF b THEN "True" ELSE "False"

\* message_handler.py lines 28-43 and 90-101: the voice note of a message
\* that met an IN_QNA record.  A failed download and an error of the
\* transcription are sent to the patient, a transcript becomes the text
\* handed to process_ai_answer, and no transcript without an error is
\* answered with the "couldn't understand" line.  An exception of the chain
\* is not caught here.
voice_answer(download, r) ==
    LET op == "voice_answer"
    IN  IF ~download
        THEN Call(op, <<>>, "none", "Couldn't download the voice note")
        ELSE IF r.raised
        THEN Raised(op, r.calls)
        ELSE IF r.error # "none"
        THEN Call(op, r.calls, "none", r.error)
        ELSE IF r.value # "none"
        THEN Call(op, r.calls, "process_ai_answer", "none")
        ELSE Call(op, r.calls, "none", "I couldn't understand that voice note")

\* A voice note arrives while the key's status is IN_QNA.
VoiceAnswer ==
    /\ fn.op = "idle"
    /\ \E download \in BOOLEAN, lo \in LocalSttOutcomes,
          do \in DeepgramSttOutcomes :
          fn' = [voice_answer(download, transcribe_audio_bytes(env, lo, do))
                   EXCEPT !.args = <<PyBool(download), lo, do>>]
    /\ UNCHANGED <<store, heap, pc, sd, idx, ans, trace, fails, gone, input,
                   serial, env, runner, second, asks>>

\* chat_actions.chat_action around a body, as the scope's exit sees it.
\* made: client.action(...) returned a context; entered: its __aenter__
\* returned (the indicator is on); body_raises: the body raised an
\* Exception; closes: the context-manager machinery closes a generator that
\* did not stop (it does from Python 3.12 on; before, the generator stays
\* suspended and its finally waits for the finaliser).
\* Line 22 is inside the try: the body's exception, thrown in at the yield,
\* is caught at line 23 and the generator yields a second time at line 25,
\* which the machinery answers with a RuntimeError.  Line 27 tests ctx, set
\* as soon as client.action returned, whether or not __aenter__ succeeded.
chat_action(made, entered, body_raises, closes) ==
    LET op    == "chat_action"
        enter == IF ~made THEN <<>>
                 ELSE IF entered THEN <<"enter">> ELSE <<"enter_failed">>
    IN  IF made /\ entered /\ body_raises
        THEN Call(op, enter \o <<"body">> \o (IF closes THEN <<"exit">> ELSE <<>>),
                  "none", "RuntimeError")
        ELSE Call(op, enter \o <<"body">> \o (IF made THEN <<"exit">> ELSE <<>>),
                  "none", IF body_raises THEN "body" ELSE "none")

\* A body runs under chat_action.
ChatAction ==
    /\ fn.op = "idle"
    /\ env = NoKeys
    /\ \E made \in BOOLEAN, entered \in BOOLEAN, body_raises \in BOOLEAN,
          closes \in BOOLEAN :
          fn' = [chat_action(made, entered, body_raises, closes)
                   EXCEPT !.args = <<PyBool(made), PyBool(entered),
                                     PyBool(body_raises), PyBool(closes)>>]
    /\ UNCHANGED <<store, heap, pc, sd, idx, ans, trace, fails, gone, input,
                   serial, env, runner, second, asks>>

\* Values of the type parameter as a request may carry them, decoded.
V_call == <<"c","a","l","l">>
V_CALL == <<"C","A","L","L">>
V_text == <<"t","e","x","t">>
TypeValues ==
    {<<>>, V_call, V_CALL, <<"C","a","l","l">>, <<"c","a","l","l","s">>,
     V_text, <<"T","E","X","T">>, <<"v","o","i","c","e">>}

\* send_prompt that sends no text once the voice note went out.
send_prompt_voice_only(text, delivery_mode, send_text_fallback, tts, voice_ok) ==
    LET op == "send_prompt"
    IN  IF ~text
        THEN Call(op, <<>>, "none", "none")
        ELSE IF Lower(IF delivery_mode = <<>> THEN V_text ELSE delivery_mode) # V_call
        THEN Call(op, <<"send_message">>, "none", "none")
        ELSE IF tts.value = "audio" /\ voice_ok
        THEN Call(op, <<"send_file">>, "none", "none")
        ELSE Call(op, IF tts.value = "audio" THEN <<"send_file_failed">> ELSE <<>>,
                  "none", "none")

\* prompt_delivery.send_prompt, lines 20-53; `calls` are its sends on the
\* chat channel in order.  text: the prompt is not empty; tts: what
\* synthesize_speech returned; voice_ok: client.send_file went through.
send_prompt(text, delivery_mode, send_text_fallback, tts, voice_ok) ==
    LET op       == "send_prompt"
        fallback == IF send_text_fallback THEN <<"send_message">> ELSE <<>>
    IN  IF ~text
        THEN Call(op, <<>>, "none", "none")
        ELSE IF Lower(IF delivery_mode = <<>> THEN V_text ELSE delivery_mode) # V_call
        THEN Call(op, <<"send_message">>, "none", "none")
        ELSE IF tts.value # "audio"
        THEN Call(op, fallback, "none", "none")
        ELSE IF ~voice_ok
        THEN Call(op, <<"send_file_failed">> \o fallback, "none", "none")
        ELSE Call(op, <<"send_file">> \o fallback, "none", "none")

\* A prompt is delivered; every Hugging Face model answers alike.
SendPrompt ==
    /\ fn.op = "idle"
    /\ \E text \in BOOLEAN, delivery_mode \in {<<>>, V_text, V_call, V_CALL},
          send_text_fallback \in BOOLEAN, out \in HfOutcomes,
          do \in DeepgramTtsOutcomes, voice_ok \in BOOLEAN :
          LET tts == synthesize_speech(env, [k \in 1..Len(HfModels(env)) |-> out], do)
          IN  fn' = [send_prompt(text, delivery_mode, send_text_fallback, tts, voice_ok)
                       EXCEPT !.args = <<PyBool(text), PyBool(send_text_fallback),
                                         tts.value, PyBool(voice_ok)>>,
                              !.query = <<delivery_mode>>]
    /\ UNCHANGED <<store, heap, pc, sd, idx, ans, trace, fails, gone, input,
                   serial, env, runner, second, asks>>

\* The query strings: the type parameter given no, one or two times.
Queries == {<<>>} \cup {<<v>> : v \in TypeValues}
                  \cup {<<v, w>> : v \in TypeValues, w \in TypeValues}

\* parse_qs(query)["type"], keep_blank_values left at its default: the
\* values that are not blank, in order; no key when none is left.
parse_qs(q) == SelectSeq(q, LAMBDA v : v # <<>>)

\* The mapping compared without lowering the value.
do_POST_delivery_mode_exact(q) ==
    LET params == parse_qs(q)
        first  == IF params = <<>> THEN V_text ELSE params[1]
        mode   == IF first = <<>> THEN V_text ELSE first
    IN  IF mode \notin {V_text, V_call} THEN V_text ELSE mode

\* main.py lines 98-101:
\*   (params.get("type", ["text"])[0] or "text").lower(), then "text" unless
\*   the result is "text" or "call".
do_POST_delivery_mode(q) ==
    LET params == parse_qs(q)
        first  == IF params = <<>> THEN V_text ELSE params[1]
        mode   == Lower(IF first = <<>> THEN V_text ELSE first)
    IN  IF mode \notin {V_text, V_call} THEN V_text ELSE mode

\* The mode as the response and the call of the trigger carry it.
Spell(mode) ==
    CASE mode = V_call -> "call"
      [] mode = V_text -> "text"
      [] OTHER         -> "other"

\* do_POST for a path that matches, up to the call of the trigger.
DoPost ==
    /\ fn.op = "idle"
    /\ env = NoKeys
    /\ \E q \in Queries :
          fn' = [Call("do_POST", <<>>, Spell(do_POST_delivery_mode(q)), "none")
                   EXCEPT !.query = q]
    /\ UNCHANGED <<store, heap, pc, sd, idx, ans, trace, fails, gone, input,
                   serial, env, runner, second, asks>>

\* What send_checkin_for_patient_id returns, and the store it leaves.
Outcome(s, ok, detail) == [s |-> s, ok |-> ok, detail |-> detail]

\* main.py lines 32-77.  found: the backend returned the patient; username:
\* the patient has a Telegram username; checkin_id: an active check-in or a
\* new one gave an id; entity: get_input_entity resolved the user.  The
\* call of start_ai_session sits in a try: an exception, the TypeError of a
\* call that does not bind included, becomes the failure return.
send_checkin_for_patient_id(s, found, username, checkin_id, entity, questions, delivery_mode) ==
    IF ~found
    THEN Outcome(s, FALSE, "Patient not found or API error")
    ELSE IF ~username
    THEN Outcome(s, FALSE, "Patient has no Telegram username")
    ELSE IF ~checkin_id
    THEN Outcome(s, FALSE, "Could not obtain check-in session ID")
    ELSE IF ~entity
    THEN Outcome(s, FALSE, "Could not resolve Telegram user")
    ELSE IF ~(TriggerKeywords \subseteq StartAiSessionKeywords)
    THEN Outcome(s, FALSE, "Failed to start AI session")
    ELSE Outcome(start_ai_session(s, PatientData(R_low), questions, TRUE, TRUE),
                 TRUE, "username")

\* The trigger server calls send_checkin_for_patient_id with the mode it
\* mapped.
SendCheckinForPatientId ==
    /\ fn.op = "idle"
    /\ env = NoKeys
    /\ \E found \in BOOLEAN, username \in BOOLEAN, checkin_id \in BOOLEAN,
          entity \in BOOLEAN, questions \in QuestionSets,
          delivery_mode \in DeliveryModes :
          LET r == send_checkin_for_patient_id(Cur, found, username, checkin_id,
                                               entity, questions, delivery_mode)
          IN  /\ fn' = [Call("send_checkin_for_patient_id", <<>>,
                             PyBool(r.ok), r.detail)
                           EXCEPT !.args = <<PyBool(found), PyBool(username),
                                             PyBool(checkin_id), PyBool(entity),
                                             delivery_mode>>,
                                  !.questions = questions]
              /\ store' = r.s.store
              /\ heap' = r.s.heap
              /\ gone' = r.s.gone
    /\ UNCHANGED <<pc, sd, idx, ans, trace, fails, input, serial, env, runner,
                   second, asks>>

----------------------------------------------------------------------------
\* Voice notes in the Q&A flow

\* What the voice branch can come to, over every configuration and answer
\* of the transcription chain: a transcript, an error that is sent, no
\* transcript and no error, or the chain's exception.
VoiceKinds ==
    {LET v == voice_answer(download, transcribe_audio_bytes(e, lo, do))
     IN  IF v.raised THEN "raised"
         ELSE IF v.value = "process_ai_answer" THEN "transcript"
         ELSE IF v.error = "I couldn't understand that voice note" THEN "unclear"
         ELSE "error"
     : download \in BOOLEAN, e \in Envs, lo \in LocalSttOutcomes,
       do \in DeepgramSttOutcomes}

\* The voice branch handing a missing transcript on as the answer.
handle_voice_note_blank(s, t, kind, transcript) ==
    IF kind = "raised"
    THEN Raise(s, t)
    ELSE process_ai_answer(s, t, IF kind = "transcript" THEN transcript ELSE <<>>)

\* message_handler.py lines 88-108 for a voice note that met an IN_QNA
\* record: the error or the "couldn't understand" line is sent and the
\* handler returns; a transcript is the text process_ai_answer gets.
handle_voice_note(s, t, kind, transcript) ==
    CASE kind = "raised"     -> Raise(s, t)
      [] kind = "error"      -> Ret(Emit(s, t, E0("voice_error")), t)
      [] kind = "unclear"    -> Ret(Emit(s, t, E0("voice_unclear")), t)
      [] OTHER               -> process_ai_answer(s, t, transcript)

HandleVoiceNote ==
    \E kind \in VoiceKinds, transcript \in Transcripts \ {<<>>} :
        /\ Running
        /\ pc["chat"] = "idle"
        /\ MayBegin("chat")
        /\ store # NoRef
        /\ heap[store].status = "IN_QNA"
        /\ Apply(handle_voice_note(IF kind = "transcript"
                                    THEN Hear(Cur, transcript) ELSE Cur,
                                    "chat", kind, transcript))

NextVoice == Next \/ HandleVoiceNote

\* Serial dispatch with voice notes among the answers.
SpecVoice == InitSeq /\ [][NextVoice]_vars

InitFn ==
    /\ store = NoRef
    /\ heap = [o \in Refs |-> Free]
    /\ pc = [t \in Tasks |-> IF t = "chat" THEN "idle" ELSE "r_off"]
    /\ sd = [t \in Tasks |-> NoRef]
    /\ idx = [t \in Tasks |-> 0]
    /\ ans = [t \in Tasks |-> <<>>]
    /\ trace = [t \in Tasks |-> <<>>]
    /\ fails = 0
    /\ gone = "never"
    /\ input = CHOOSE i \in Inputs : TRUE
    /\ serial = TRUE
    /\ env \in Envs
    /\ fn = Idle
    /\ runner = Quiet
    /\ second = NotRun
    /\ asks = -1

NextFn ==
    \/ GenerateQuestions
    \/ GenerateSummary
    \/ GenerateEmergencyJson
    \/ TranscribeAudioBytes
    \/ SynthesizeSpeech
    \/ AskViaCall
    \/ SendCheckinForPatientId
    \/ DoPost
    \/ VoiceAnswer
    \/ ChatAction
    \/ SendPrompt

\* One call of one chain under every configuration.
SpecFn == InitFn /\ [][NextFn]_vars

----------------------------------------------------------------------------
\* Properties

\* Where an event kind stands in the trace of the handler task t is in.
At(t, e) == {k \in 1..Len(trace[t]) : trace[t][k].e = e}

\* No handler is between its first statement and its last.
Settled == \A t \in Tasks : ~InHandler(pc[t]) \/ pc[t] \in {"ret", "raised"}

\* C1: when the answers of a key are handled one at a time, then after every
\* completed step that leaves the record in the store, answers has exactly
\* `index` entries, and the k-th entry is the answer that was given to the
\* k-th question, tagged with that question's sequence number.
C1_AnswersMatchIndex ==
    (Settled /\ store # NoRef /\ heap[store].status = "IN_QNA") =>
        LET rec == heap[store]
        IN  /\ Len(rec.answers) = rec.index
            /\ Len(rec.heard) = rec.index
            /\ \A k \in 1..rec.index :
                  /\ rec.answers[k].q = k - 1
                  /\ rec.heard[k].q = k - 1
                  /\ rec.answers[k].seq = rec.question_set[k].seq
                  /\ rec.answers[k].answer = rec.heard[k].answer

\* A step recorded the first answer ("Pain", a text with an emergency keyword)
\* and left the record in the store with the second question current.
C1_Witness ==
    \E t \in Tasks :
        /\ pc[t] = "ret"
        /\ At(t, "persist") # {}
        /\ store # NoRef
        /\ heap[store].index = 1
        /\ heap[store].answers[1].answer = T_Pain

\* An event that is neither the delete nor the exception of a handler.
Visible(ev) == ev.e \notin {"del", "raise"}

\* C2: a step given a text containing "end", "stop" or "bye" in any case
\* sends one acknowledgement, removes the record and does nothing else (no
\* append, no post, no index write, no question); afterwards the key has no
\* record until start_ai_session or start_emergency_session runs for it.
C2_TerminationEndsSession ==
    [][/\ \A t \in Tasks :
            (sd'[t] # NoRef /\ IsTermination(ans'[t])) =>
                /\ SelectSeq(trace'[t], Visible) = <<E0("ack")>>
                /\ pc'[t] \in {"ret", "raised"} => store' = NoRef
       /\ (gone = "termination" /\ store' # NoRef) =>
              (StartAiSession \/ StartEmergencySession)]_vars

\* C3: a step that was suspended at the backend answer post or at sending the
\* next question while the key's record was deleted does not put a record
\* back when it resumes.
C3_NoPutBack ==
    [][\A t \in Tasks :
          (/\ pc[t] \in {"p_post", "p_prompt"}
           /\ pc'[t] # pc[t]
           /\ store = NoRef
           /\ gone \in {"termination", "completion", "location_share"})
              => store' = NoRef]_vars

\* C4: for every interleaving of a chat answer and a runner transcript, no
\* two answers of a record are recorded against the same question index.
C4_OneAnswerPerIndex ==
    \A o \in Refs :
        \A j, k \in 1..Len(heap[o].answers) :
            j # k => heap[o].answers[j].q # heap[o].answers[k].q

\* C5: a record's index starts at 0, never decreases while the record exists,
\* grows by at most 1 in a step, and stays within 0..len(question_set).
C5_IndexMonotone ==
    [][IF StartAiSession \/ StartEmergencySession
       THEN heap'[store'].index = 0
       ELSE \A o \in Refs :
                (heap[o].status = "IN_QNA" /\ heap'[o].status = "IN_QNA") =>
                    /\ heap'[o].index >= heap[o].index
                    /\ heap'[o].index <= heap[o].index + 1
                    /\ 0 <= heap'[o].index
                    /\ heap'[o].index <= Len(heap'[o].question_set)]_vars

\* C6: the key's record leaves the store only by the final summary's delete,
\* the termination delete or the location-share delete, nothing replaces a
\* live record, and no delete is attempted on a key without a record.
C6_RemovedOnlyByTransitions ==
    [][/\ (/\ store # NoRef
           /\ store' # store \/ StartAiSession \/ StartEmergencySession) =>
            /\ store' = NoRef
            /\ LocationDelete \/ \E t \in Tasks : TermDelete(t) \/ AfterFinal(t)
       /\ \A t \in Tasks :
            (pc[t] \in {"p_term", "p_final", "e_loc"} /\ pc'[t] # pc[t]) =>
                store # NoRef]_vars

\* C7: with answers handled one at a time, the step that records the k-th
\* answer of a session with N questions ends, for k < N, with index = k,
\* exactly question k sent, and the record stored with status IN_QNA and k
\* answers; for k = N, with no question sent, the summary requested, the
\* final reply sent and the record deleted.
C7_SessionProgress ==
    \A t \in Tasks :
        (pc[t] \in {"ret", "raised"} /\ At(t, "append") # {}) =>
            LET rec == heap[sd[t]]
                N   == Len(rec.question_set)
                k   == trace[t][CHOOSE j \in At(t, "append") : TRUE].n + 1
            IN  IF k < N
                THEN /\ rec.index = k
                     /\ Len(rec.answers) = k
                     /\ store = sd[t]
                     /\ rec.status = "IN_QNA"
                     /\ Cardinality(At(t, "ask")) = 1
                     /\ \A j \in At(t, "ask") : trace[t][j].n = k
                ELSE /\ At(t, "ask") = {}
                     /\ At(t, "llm") # {}
                     /\ At(t, "reply") # {}
                     /\ At(t, "del") # {}
                     /\ store = NoRef

\* C8: the answer for question i is appended with question i's sequence
\* number, then (with a check-in id) posted with the same number, and index
\* is set to i+1 only once the post has returned; no question is sent by a
\* step that recorded an answer before it has set index.
C8_RecordOrder ==
    \A t \in Tasks :
        /\ pc[t] = "p_post" => At(t, "index") = {}
        /\ \A k \in 1..Len(trace[t]) :
              LET ev  == trace[t][k]
                  rec == heap[sd[t]]
              IN  /\ ev.e = "append" =>
                        /\ k = 1
                        /\ ev.m = rec.question_set[ev.n + 1].seq
                        /\ ev.x = ans[t]
                        /\ k < Len(trace[t])
                        /\ trace[t][k + 1] =
                               IF rec.checkin_id
                               THEN Ev("post", 0, ev.m, ev.x)
                               ELSE Ev("index", ev.n + 1, 0, <<>>)
                  /\ ev.e = "post" =>
                        /\ k = 2
                        /\ trace[t][1].e = "append"
                        /\ rec.checkin_id
                        /\ IF k = Len(trace[t])
                           THEN pc[t] = "p_post"
                           ELSE trace[t][k + 1] =
                                    Ev("index", trace[t][1].n + 1, 0, <<>>)
                  /\ ev.e = "index" =>
                        /\ trace[t][1].e = "append"
                        /\ ev.n = trace[t][1].n + 1
                        /\ k = IF rec.checkin_id THEN 3 ELSE 2
                  /\ ev.e = "ask" =>
                        (At(t, "append") # {} => \E j \in At(t, "index") : j < k)

\* A step appended, posted, advanced the index and sent the next question.
C8_Witness ==
    \E t \in Tasks :
        /\ pc[t] = "ret"
        /\ Len(trace[t]) = 5
        /\ trace[t][1].e = "append"
        /\ trace[t][2].e = "post"
        /\ trace[t][3].e = "index"
        /\ trace[t][4].e = "ask"
        /\ trace[t][5].e = "persist"

\* C9: in the completing step the reply, the end-checkin call (with a patient
\* user id), the analysis push (with a check-in id) and the delete happen at
\* most once each and in this order; the step never deletes before its reply.
C9_CompletionOrder ==
    \A t \in Tasks :
        At(t, "llm") # {} =>
            LET rec == heap[sd[t]]
                R   == At(t, "reply")
                E   == At(t, "end_checkin")
                A   == At(t, "analysis")
                D   == At(t, "del")
            IN  /\ \A S \in {R, E, A, D} : Cardinality(S) <= 1
                /\ \A e \in E : \E r \in R : r < e
                /\ \A a \in A : (\E r \in R : r < a) /\ (\A e \in E : e < a)
                /\ \A d \in D : /\ \E r \in R : r < d
                                /\ \A e \in E : e < d
                                /\ \A a \in A : a < d
                /\ R # {} => /\ E # {} <=> rec.patient_user_id
                             /\ A # {} <=> rec.checkin_id

\* A step replied, ended the check-in, pushed the analysis and deleted.
C9_Witness ==
    \E t \in Tasks :
        /\ pc[t] = "ret"
        /\ At(t, "reply") # {}
        /\ At(t, "end_checkin") # {}
        /\ At(t, "analysis") # {}
        /\ At(t, "del") # {}

\* The risk table of the analysis payload, by the lower-cased risk level.
C10_Row(r) ==
    LET v == IF r.none THEN <<>> ELSE Lower(r.v)
    IN  CASE v = <<"l","o","w">>                     -> <<"LOW", 30, "STABLE">>
          [] v = <<"m","e","d","i","u","m">>         -> <<"LOW", 60, "CONCERN">>
          [] v = <<"h","i","g","h">>                 -> <<"MEDIUM", 80, "CONCERN">>
          [] v = <<"c","r","i","t","i","c","a","l">> -> <<"HIGH", 90, "CONCERN">>
          [] OTHER                                   -> <<"LOW", 30, "STABLE">>

\* C10: the (severity, risk_score, medical_status) of every analysis payload
\* is the table row of the patient's risk level compared case-insensitively
\* (the LOW row for any other, blank or missing level), whatever the summary
\* and the answers were.
C10_RiskMapping ==
    \A t \in Tasks :
        \A k \in At(t, "analysis") :
            <<trace[t][k].x[1], trace[t][k].n, trace[t][k].x[2]>> =
                C10_Row(heap[sd[t]].patient_context.RiskLevel)

\* An analysis payload for a patient whose risk level is spelled "Critical",
\* pushed after the summary fell back to the empty object.
C10_Witness ==
    \E t \in Tasks :
        /\ sd[t] # NoRef
        /\ heap[sd[t]].patient_context.RiskLevel
               = Opt(<<"C","r","i","t","i","c","a","l">>)
        /\ \E k \in At(t, "analysis") : trace[t][k].n = 90
        /\ \E k \in At(t, "reply") : trace[t][k].x[1] = "fallback"

\* C11: an empty question set starts no session: no record with status
\* IN_QNA has an empty question_set, so no step runs a summary, an end-checkin
\* call or an analysis push for such a record.
C11_EmptySetNotStarted ==
    /\ \A o \in Refs : heap[o].status = "IN_QNA" => heap[o].question_set # <<>>
    /\ \A t \in Tasks :
          (/\ sd[t] # NoRef
           /\ heap[sd[t]].status = "IN_QNA"
           /\ heap[sd[t]].question_set = <<>>) =>
              /\ At(t, "llm") = {}
              /\ At(t, "end_checkin") = {}
              /\ At(t, "analysis") = {}

\* C12: question generation never raises: whatever the LLM answered, the
\* question-building step of start_ai_session ends with a question list.
C12_QuestionsNeverRaise ==
    fn.op = "questions" => ~fn.raised

\* C13: with the local endpoint and Deepgram both configured, a transcript of
\* the local endpoint is returned without a call to Deepgram; when the local
\* endpoint fails or hears nothing, Deepgram is called exactly once and the
\* chain returns what Deepgram returned.
C13_SttFallback ==
    (/\ fn.op = "transcribe_audio_bytes"
     /\ env.STT_API_URL
     /\ env.DEEPGRAM_API_KEY) =>
        IF fn.args[1] = "transcript"
        THEN /\ fn.calls = <<"local">>
             /\ ~fn.raised
             /\ fn.value = "transcript"
             /\ fn.error = "none"
        ELSE LET cloud == deepgram_stt(env, fn.args[2])
             IN  /\ fn.calls = <<"local", "deepgram">>
                 /\ fn.raised = cloud.raised
                 /\ fn.value = cloud.value
                 /\ fn.error = cloud.error

\* A call of one of the two LLM chains.
LlmCall == fn.op \in {"questions", "generate_emergency_json"}

\* C14: in both LLM chains, when Groq and Gemini are configured and the call
\* to Groq fails, Gemini is called next and its result is returned; a chain
\* call fails only after every configured backend was tried once.
C14_LlmFallback ==
    (/\ LlmCall
     /\ env.GROQ_API_KEY
     /\ env.GEMINI_API_KEY
     /\ fn.args[1] = "error") =>
        /\ fn.calls = <<"groq", "gemini">>
        /\ fn.value = (IF fn.op = "questions"
                       THEN gemini_generate_ai_chat_response(env, fn.args[2]).value
                       ELSE gemini_generate_emergency_json(env, fn.args[2]).value)

\* The chain has exactly one candidate and that candidate's request failed.
OnlyCandidateFailed ==
    \/ /\ LlmCall
       /\ env.GROQ_API_KEY # env.GEMINI_API_KEY
       /\ fn.args[IF env.GROQ_API_KEY THEN 1 ELSE 2] = "error"
    \/ /\ fn.op = "transcribe_audio_bytes"
       /\ env.STT_API_URL # env.DEEPGRAM_API_KEY
       /\ fn.args[IF env.STT_API_URL THEN 1 ELSE 2]
             \in {"empty", "request_error", "non_json"}
    \/ /\ fn.op = "synthesize_speech"
       /\ env.HF_TTS_TOKEN # env.DEEPGRAM_API_KEY
       /\ IF env.HF_TTS_TOKEN
          THEN \A k \in 1..(Len(fn.args) - 1) : fn.args[k] # "audio"
          ELSE fn.args[Len(fn.args)] = "request_error"

\* The one candidate a chain has.
OnlyCandidate ==
    CASE LlmCall -> IF env.GROQ_API_KEY THEN "groq" ELSE "gemini"
      [] fn.op = "transcribe_audio_bytes" -> IF env.STT_API_URL THEN "local" ELSE "deepgram"
      [] OTHER -> "deepgram"

\* C15: a chain with exactly one candidate uses that candidate, and when the
\* candidate fails the caller gets an error and no value.
C15_SingleCandidate ==
    OnlyCandidateFailed =>
        /\ fn.calls # <<>>
        /\ (fn.op = "synthesize_speech" /\ env.HF_TTS_TOKEN) \/
              \A k \in 1..Len(fn.calls) : fn.calls[k] = OnlyCandidate
        /\ fn.value = "none"
        /\ fn.error # "none"

\* No candidate of the chain is configured.
NothingConfigured ==
    \/ LlmCall /\ ~env.GROQ_API_KEY /\ ~env.GEMINI_API_KEY
    \/ fn.op = "transcribe_audio_bytes" /\ ~env.STT_API_URL /\ ~env.DEEPGRAM_API_KEY
    \/ fn.op = "synthesize_speech" /\ ~env.HF_TTS_TOKEN /\ ~env.DEEPGRAM_API_KEY

\* The error of a chain that has no backend: it names the keys to set.
NoBackendErrors ==
    {"No AI backend configured. Please set GROQ_API_KEY or GEMINI_API_KEY.",
     "No STT backend configured. Set STT_API_URL or DEEPGRAM_API_KEY.",
     "No TTS backend configured. Set HF_TTS_TOKEN (preferred) or DEEPGRAM_API_KEY."}

\* C16: a chain with no candidate configured calls no backend and returns
\* the no-backend-configured error that names the missing keys; the LLM
\* chains do so as well as STT and TTS.
C16_NoBackend ==
    NothingConfigured =>
        /\ fn.calls = <<>>
        /\ fn.value = "none"
        /\ fn.error \in NoBackendErrors

\* C17: the final summary comes from the backend the LLM chain selects for
\* the configured keys: Groq when GROQ_API_KEY is set, otherwise Gemini.
C17_SummaryThroughChain ==
    (fn.op = "summary" /\ (env.GROQ_API_KEY \/ env.GEMINI_API_KEY)) =>
        fn.calls = <<backend(env)>>

\* C18: run_call_qna never has more than three consecutive asks without a
\* transcript: an ask is in flight only after fewer than three failures in
\* a row, a transcript resets the count to 0, and the third failure in a row
\* sends "couldn't hear" and "answer here in chat", leaves the loop for the
\* end-call request, and no ask follows.
C18_ThreeFailures ==
    [][/\ fails <= 2
       /\ (pc["call"] = "r_ask" /\ pc'["call"] \in {"r_sleep", "r_end"}) =>
             IF fails = 2
             THEN /\ pc'["call"] = "r_end"
                  /\ runner'.said = <<"couldnt_hear", "answer_in_chat">>
             ELSE /\ pc'["call"] = "r_sleep"
                  /\ fails' = fails + 1
                  /\ runner'.said = <<"couldnt_hear">>
       /\ (pc["call"] = "r_ask" /\ pc'["call"] \notin {"r_ask", "r_sleep", "r_end"}) =>
             fails' = 0
       /\ pc["call"] = "r_end" => pc'["call"] \in {"r_end", "r_off"}]_vars

\* The third ask in a row came back without a transcript: the runner told the
\* patient to answer in chat and is ending the call.
C18_Witness ==
    /\ pc["call"] = "r_end"
    /\ runner.said = <<"couldnt_hear", "answer_in_chat">>

\* C19: every ask request of run_call_qna is issued in the step that read the
\* store and found a record with status IN_QNA and index < len(question_set),
\* and it asks the question at that index; with the record deleted or in
\* another status no ask starts.
C19_AskAfterFreshRead ==
    [][(pc'["call"] = "r_ask" /\ pc["call"] # "r_ask") =>
          /\ store # NoRef
          /\ store' = store
          /\ heap'[store] = heap[store]
          /\ heap[store].status = "IN_QNA"
          /\ heap[store].index < Len(heap[store].question_set)
          /\ runner'.asking = heap[store].index + 1]_vars

\* The runner asks the second question after the first answer was recorded.
C19_Witness ==
    /\ pc["call"] = "r_ask"
    /\ runner.asking = 2
    /\ store # NoRef
    /\ heap[store].index = 1

\* C20: a run of run_call_qna that entered its loop leaves it only through
\* the end-call request, whatever ends the loop: completion, a deleted
\* record, three failures, or an exception of the Q&A engine.
C20_EndCallOnEveryExit ==
    [][pc["call"] \notin {"r_off", "r_end", "r_dead"} =>
          pc'["call"] \notin {"r_off", "r_dead"}]_vars

\* Where the runner is when it is not inside process_ai_answer.
RunnerOwn == {"r_off", "r_dead", "r_sleep", "r_ask", "r_end"}

\* A step of run_call_qna itself: reading the store, asking, counting a
\* failure, sleeping, ending the call.
RunnerOwnStep ==
    /\ pc["call"] \in RunnerOwn
    /\ pc'["call"] \in RunnerOwn
    /\ <<pc["call"], fails, runner>>' # <<pc["call"], fails, runner>>

\* C21: the runner's own steps never write the session record: an iteration
\* without a transcript, and the step that gives up the voice loop, leave the
\* key with the record it had, status, index, answers and question_set
\* unchanged, so the chat can answer the same question.
C21_RunnerLeavesRecord ==
    [][RunnerOwnStep =>
          /\ store' = store
          /\ store # NoRef => heap'[store] = heap[store]]_vars

\* The runner gave up after three failures, the record stayed IN_QNA, and a
\* chat message was then recorded as the answer to the current question.
C21_Witness ==
    /\ pc["call"] = "r_end"
    /\ runner.said = <<"couldnt_hear", "answer_in_chat">>
    /\ pc["chat"] = "ret"
    /\ At("chat", "append") # {}

\* A loop of run_call_qna is between its first read of the store and its exit.
Looping(p) == p \notin {"r_off", "r_end", "r_dead"}

\* C22: at most one runner loop is active for a session: a call of
\* run_call_qna for a key whose runner is looping starts no second loop that
\* issues ask requests.
C22_OneRunnerLoop ==
    ~(Looping(pc["call"]) /\ Looping(second.pc))

\* Parameters of the listen window with min_sec <= max_sec; the rate is in
\* hundredths of a second per character.
WindowParams ==
    {p \in [base : {0, 7, 30}, per_cent : {0, 4, 5, 100},
            min_sec : {0, 7}, max_sec : {7, 20}] : p.min_sec <= p.max_sec}

\* C23: the listen window lies in [min_sec, max_sec] for every prompt length
\* from 0 on and does not shrink when the prompt grows; the window
\* ask_via_call sends is the one for base 7, rate 0.04 and bounds 7 and 20,
\* between 7 and 20 seconds, whatever listen_seconds it was called with.
C23_ListenWindow ==
    fn.op = "ask_via_call" =>
        LET len == fn.window.len
        IN  /\ \A p \in WindowParams :
                  LET w == dynamic_listen_seconds(len, p.base, p.per_cent,
                                                  p.min_sec, p.max_sec)
                  IN  /\ w \in p.min_sec..p.max_sec
                      /\ w <= dynamic_listen_seconds(len + 1, p.base, p.per_cent,
                                                     p.min_sec, p.max_sec)
            /\ fn.calls # <<>> =>
                  /\ fn.window.sent \in 7..20
                  /\ fn.window.sent = Max(7, Min(20, 7 + (len * 4) \div 100))

\* A prompt long enough for the upper bound to matter was asked with a
\* listen_seconds argument above the bound.
C23_Witness ==
    /\ fn.op = "ask_via_call"
    /\ fn.window.len = MaxPromptLen
    /\ fn.window.arg = 30
    /\ fn.window.sent = 20

\* C24: start_emergency_session always ends with the key holding a record of
\* status EMERGENCY and exactly one assessment reply sent (the assessment, or
\* the 'describe your situation' text when there is none), and it sends the
\* high alert exactly when the parsed triage_level, lowered, is severe,
\* critical or urgent.
C24_EmergencyStart ==
    \A t \in Tasks :
        (pc[t] \in {"ret", "raised"} /\ At(t, "emergency") # {}) =>
            LET tr == trace[t][1].x[1]
            IN  /\ pc[t] = "ret"
                /\ store # NoRef
                /\ heap[store].status = "EMERGENCY"
                /\ Cardinality(At(t, "triage_reply")) = 1
                /\ \A k \in At(t, "triage_reply") :
                      trace[t][k].x[1] = IF tr.brief THEN "brief" ELSE "describe"
                /\ At(t, "high_alert") # {} <=>
                      (tr.parsed = "object" /\ Lower(tr.level) \in HighTriage)

\* The text of a message mentions a location or an address.
MentionsLocation(m) ==
    \/ Contains(Lower(m.text), <<"l","o","c","a","t","i","o","n">>)
    \/ Contains(Lower(m.text), <<"a","d","d","r","e","s","s">>)

\* C25: a message handled while the key's status is EMERGENCY has exactly
\* one effect: a shared location sends the confirmation and then deletes the
\* record; otherwise a text that mentions location or address sends the
\* share-location prompt; otherwise the holding message is sent; and only
\* the shared location removes or alters the record.
C25_EmergencyFollowUp ==
    [][/\ (/\ pc["chat"] = "idle"
           /\ pc'["chat"] # "idle"
           /\ store # NoRef
           /\ heap[store].status = "EMERGENCY") =>
              LET tr == trace'["chat"]
                  m  == tr[1].x[1]
              IN  /\ Len(tr) = 1
                  /\ store' = store
                  /\ heap'[store] = heap[store]
                  /\ IF m.media = "geo"
                     THEN tr[1].e = "location_received" /\ pc'["chat"] = "e_loc"
                     ELSE /\ pc'["chat"] = "ret"
                          /\ tr[1].e = IF MentionsLocation(m)
                                       THEN "share_location" ELSE "holding"
       /\ (pc["chat"] = "e_loc" /\ pc'["chat"] # "e_loc") =>
              /\ pc'["chat"] = "ret"
              /\ store # NoRef
              /\ heap[store].status = "EMERGENCY"
              /\ store' = NoRef]_vars

\* A text asking where to send the location was answered with the
\* share-location prompt, and the emergency record is still there.
C25_Witness ==
    /\ pc["chat"] = "ret"
    /\ Len(trace["chat"]) = 1
    /\ trace["chat"][1].e = "share_location"
    /\ store # NoRef
    /\ heap[store].status = "EMERGENCY"


\* C26: a trigger for a patient the backend returns, who has a Telegram
\* username, for whom a check-in id is obtained and whose Telegram user
\* resolves, reports success and leaves the key an IN_QNA record at index 0
\* with no answers and with delivery_mode equal to the requested mode.
C26_TriggerStartsSession ==
    (/\ fn.op = "send_checkin_for_patient_id"
     /\ \A k \in 1..4 : fn.args[k] = "True")
    => /\ fn.value = "True"
       /\ store # NoRef
       /\ heap[store].status = "IN_QNA"
       /\ heap[store].index = 0
       /\ heap[store].answers = <<>>
       /\ "delivery_mode" \in DOMAIN heap[store]
       /\ heap[store].delivery_mode = fn.args[5]

\* C27: the trigger endpoint's delivery mode is always text or call; for a
\* request that gives the type parameter at most once it is call exactly
\* when the value equals "call" without regard to case, and text when the
\* parameter is missing, empty or anything else.
C27_DeliveryModeMapping ==
    fn.op = "do_POST"
    => /\ fn.value \in {"text", "call"}
       /\ fn.query = <<>> => fn.value = "text"
       /\ Len(fn.query) = 1
          => (fn.value = "call" <=> Lower(fn.query[1]) = V_call)

\* A request with type=CALL was mapped to call.
C27_Witness ==
    /\ fn.op = "do_POST"
    /\ fn.query = <<V_CALL>>
    /\ fn.value = "call"

\* The events of a handler that are messages sent to the patient in the Q&A
\* flow: the "session lost" error, the termination acknowledgement, the
\* next question, the final reply, the request to reply.
QnaSends == {"lost", "ack", "ask", "reply", "please_reply"}

\* C28: when the handling of an inbound private message that met an IN_QNA
\* record ends, at least one message was sent to the patient during it.
C28_InQnaAlwaysAnswers ==
    (/\ pc["chat"] \in {"ret", "raised"}
     /\ sd["chat"] # NoRef
     /\ heap[sd["chat"]].status = "IN_QNA")
    => \E k \in 1..Len(trace["chat"]) : trace["chat"][k].e \in QnaSends

\* What the patient and the store show of the handling of t in state s: the
\* record's index and answers, the messages sent, whether the key has a
\* record, and where the handling stands.
Shown(s, t) ==
    [index   |-> s.heap[s.sd[t]].index,
     answers |-> s.heap[s.sd[t]].answers,
     sent    |-> SelectSeq(s.trace[t], LAMBDA ev : ev.e \in QnaSends),
     stored  |-> s.store,
     pc      |-> s.pc[t]]

\* C29: whatever post-answers, end-checkin and patch-analysis return, the
\* step that follows leaves the same index, the same answers, the same
\* messages to the patient and the same deletion of the record.
C29_BackendOutcomesIgnored ==
    \A t \in Tasks :
        /\ pc[t] = "p_post" =>
              \A a \in BackendOutcomes, b \in BackendOutcomes :
                  Shown(AfterPostStep(Cur, t, add_checkin_answers(a)), t)
                      = Shown(AfterPostStep(Cur, t, add_checkin_answers(b)), t)
        /\ pc[t] = "p_final" =>
              \A a \in BackendOutcomes, b \in BackendOutcomes,
                 c \in BackendOutcomes, d \in BackendOutcomes :
                  Shown(AfterFinalStep(Cur, t, end_checkin_session(a),
                                       update_checkin_analysis(c)), t)
                      = Shown(AfterFinalStep(Cur, t, end_checkin_session(b),
                                             update_checkin_analysis(d)), t)

\* The handling of the last answer made all three writes: the answer was
\* posted, the check-in ended and the analysis patched.
C29_Witness ==
    /\ pc["chat"] = "p_final"
    /\ At("chat", "post") # {}
    /\ At("chat", "end_checkin") # {}
    /\ At("chat", "analysis") # {}

\* The handling of t asked for the summary and did not get the expected
\* JSON object: no reply was built from one.
SummaryUnusable(t) ==
    /\ At(t, "llm") # {}
    /\ \A k \in At(t, "reply") : trace[t][k].x[1] # "object"

\* C30: when the summary call fails or returns anything but the expected
\* JSON object, the handling still ends with the final reply built from the
\* defaults sent, the backend told (the check-in ended for a patient with a
\* user id, the analysis pushed for a check-in with an id) and the record
\* deleted.
C30_SummaryFallback ==
    \A t \in Tasks :
        (pc[t] \in {"ret", "raised"} /\ SummaryUnusable(t)) =>
            /\ pc[t] = "ret"
            /\ \E k \in At(t, "reply") : trace[t][k].x[1] = "fallback"
            /\ heap[sd[t]].patient_user_id => At(t, "end_checkin") # {}
            /\ heap[sd[t]].checkin_id => At(t, "analysis") # {}
            /\ At(t, "del") # {}
            /\ store = NoRef

\* A synthesize_speech call that went to Hugging Face.
HfCall == fn.op = "synthesize_speech" /\ env.HF_TTS_TOKEN

\* Position k of the call answered with audio (a body with audio in it).
HfAudioAt(k) == k \in 1..Len(fn.calls) /\ fn.args[k] = "audio"

\* C31: within one synthesize_speech call with the Hugging Face token set,
\* no model is requested twice; the configured model, when there is one, is
\* requested first and the built-in models follow in their order; a
\* loading or gone answer is followed by the request of the next model and
\* not of the same one; the first answer with audio ends the call with it.
C31_HfModelOrder ==
    HfCall =>
        LET calls == fn.calls
            n     == Len(calls)
            own   == env.HF_TTS_MODEL
            rest  == IF own # "" /\ n > 0 THEN Tail(calls) ELSE calls
            pos(m) == CHOOSE i \in 1..Len(HF_FALLBACK_MODELS) :
                          HF_FALLBACK_MODELS[i] = m
        IN  /\ \A i \in 1..n, j \in 1..n : i # j => calls[i] # calls[j]
            /\ (own # "" /\ n > 0) => calls[1] = own
            /\ \A i \in 1..Len(rest) :
                  \E k \in 1..Len(HF_FALLBACK_MODELS) :
                      rest[i] = HF_FALLBACK_MODELS[k]
            /\ \A i \in 1..Len(rest), j \in 1..Len(rest) :
                  i < j => pos(rest[i]) < pos(rest[j])
            /\ \A k \in 1..n :
                  fn.args[k] \in {"loading", "gone"} =>
                      \/ k = n /\ fn.value = "none"
                            /\ \A m \in 1..Len(HF_FALLBACK_MODELS) :
                                  \E i \in 1..n : calls[i] = HF_FALLBACK_MODELS[m]
                      \/ k < n /\ calls[k + 1] # calls[k]
            /\ \A k \in 1..n :
                  HfAudioAt(k) => k = n /\ fn.value = "audio"

\* The configured model was loading, the first built-in model was gone and
\* the second one answered with audio.
C31_Witness ==
    /\ HfCall
    /\ env.HF_TTS_MODEL = "custom"
    /\ fn.calls = <<"custom", HF_FALLBACK_MODELS[1], HF_FALLBACK_MODELS[2]>>
    /\ fn.args[1] = "loading" /\ fn.args[2] = "gone"
    /\ HfAudioAt(3)
    /\ fn.value = "audio"

\* C32: with HF_TTS_TOKEN set, synthesize_speech never requests Deepgram
\* TTS, and when no Hugging Face model gives audio it returns no audio and
\* an error; Deepgram TTS is requested only without the token.
C32_NoDeepgramWithHfToken ==
    fn.op = "synthesize_speech" =>
        LET deepgram == \E k \in 1..Len(fn.calls) : fn.calls[k] = "deepgram"
        IN  /\ env.HF_TTS_TOKEN => ~deepgram
            /\ (env.HF_TTS_TOKEN /\ \A k \in 1..Len(fn.calls) : ~HfAudioAt(k)) =>
                  fn.value = "none" /\ fn.error # "none"
            /\ deepgram => ~env.HF_TTS_TOKEN /\ env.DEEPGRAM_API_KEY

\* Every Hugging Face model failed while the Deepgram key was set.
C32_Witness ==
    /\ HfCall
    /\ env.DEEPGRAM_API_KEY
    /\ Len(fn.calls) = Len(HfModels(env))
    /\ \A k \in 1..Len(fn.calls) : fn.args[k] = "http_error"
    /\ fn.args[Len(fn.calls) + 1] = "audio"
    /\ fn.value = "none"

\* How often event e happened in the call.
Times(e) == Cardinality({k \in 1..Len(fn.calls) : fn.calls[k] = e})

\* C33: when the scope of chat_action is left the body has run exactly
\* once; the indicator, if it was acquired, has been released exactly once,
\* whether the body returned or raised; and nothing was released if it was
\* not acquired.
C33_ChatActionRelease ==
    fn.op = "chat_action" =>
        /\ Times("body") = 1
        /\ Times("enter") = 1 => Times("exit") = 1
        /\ Times("enter") = 0 => Times("exit") = 0

\* C34: a non-empty prompt in call mode with the text fallback on puts the
\* text on the chat exactly once: alone when TTS gives no audio, alone when
\* the voice note cannot be sent, after the voice note when it can; in text
\* mode exactly one text message and no voice note goes out.
C34_PromptTextOnce ==
    (fn.op = "send_prompt" /\ fn.args[1] = "True") =>
        IF Lower(fn.query[1]) = V_call
        THEN fn.args[2] = "True" =>
                /\ Times("send_message") = 1
                /\ fn.args[3] # "audio" => fn.calls = <<"send_message">>
                /\ (fn.args[3] = "audio" /\ fn.args[4] = "False") =>
                      Times("send_file") = 0 /\ fn.calls[Len(fn.calls)] = "send_message"
                /\ (fn.args[3] = "audio" /\ fn.args[4] = "True") =>
                      fn.calls = <<"send_file", "send_message">>
        ELSE fn.calls = <<"send_message">>

\* Call mode spelled in capitals: the voice note went out, then the text.
C34_Witness ==
    /\ fn.op = "send_prompt"
    /\ fn.query = <<V_CALL>>
    /\ fn.args = <<"True", "True", "audio", "True">>
    /\ fn.calls = <<"send_file", "send_message">>

\* Where the router sent message m, read off the state r it left: to the
\* Q&A branch (the engine took the text, or the empty text was answered), to
\* the emergency follow-up router, to triage, or to the default message.
ToQna(r, m) ==
    IF Strip(m.text) = <<>>
    THEN r.trace["chat"] = <<E0("please_reply")>> /\ r.pc["chat"] = "ret"
    ELSE r.sd["chat"] = store /\ r.ans["chat"] = Strip(m.text)
ToFollowUp(r, m) ==
    /\ r.trace["chat"] # <<>>
    /\ r.trace["chat"][1].e \in {"location_received", "share_location", "holding"}
    /\ r.trace["chat"][1].x = <<m>>
ToTriage(r)  == r.pc["chat"] = "h_entity" /\ r.trace["chat"] = <<>>
ToDefault(r) == r.trace["chat"] = <<E0("cannot_start")>> /\ r.pc["chat"] = "ret"

\* C35: a message is routed by the status of the key's record alone.  With
\* IN_QNA it goes to the Q&A branch, emergency signal or not; with EMERGENCY
\* to the follow-up router; triage begins only for a key without a record
\* and a message with an emergency signal, and is started on a key that
\* still has none; without record and signal the patient gets the default
\* message and no record is made.
C35_RoutedByStatus ==
    /\ pc["chat"] = "idle" =>
          \A m \in ChatMessagesOf(serial) :
              LET r      == handle_new_message(Cur, "chat", m)
                  status == IF store = NoRef THEN "none" ELSE heap[store].status
                  signal == has_emergency_signal(m, Strip(m.text))
              IN  CASE status = "IN_QNA"    -> ToQna(r, m) /\ ~ToTriage(r)
                    [] status = "EMERGENCY" -> ToFollowUp(r, m) /\ ~ToTriage(r)
                    [] OTHER -> /\ r.store = NoRef
                                /\ IF signal THEN ToTriage(r) ELSE ToDefault(r)
    /\ pc["chat"] = "h_entity" => store = NoRef

\* An answer with an emergency keyword met an IN_QNA record and went to the
\* Q&A engine.
C35_Witness ==
    /\ pc["chat"] # "idle"
    /\ sd["chat"] # NoRef
    /\ heap[sd["chat"]].status = "IN_QNA"
    /\ ans["chat"] = T_Pain
    /\ has_emergency_signal([text |-> T_Pain, media |-> "none"], T_Pain)

\* The answers the handling of t posted to the backend, as events.
Posts(t) == {trace[t][k] : k \in At(t, "post")}

\* C36: the sequence numbers of a stored question_set increase with the
\* position, so they are pairwise distinct, and an answer is posted under
\* the sequence number of the question it answers, which no other question
\* of the session has.
C36_SeqDistinct ==
    \A o \in Refs :
        heap[o].status = "IN_QNA" =>
            LET qs == heap[o].question_set
            IN  /\ \A i \in 1..Len(qs), j \in 1..Len(qs) :
                      i < j => qs[i].seq < qs[j].seq
                /\ \A t \in Tasks :
                      sd[t] = o =>
                          \A ev \in Posts(t) :
                              Cardinality({i \in 1..Len(qs) : qs[i].seq = ev.m}) = 1

\* C37: in IN_QNA a voice note that cannot be downloaded or transcribed,
\* and a message whose text is empty, leave the record as it was (same
\* index, same answers, still IN_QNA, still stored) and post nothing: the
\* handling ends with the same question current.
C37_FailedInputKeepsRecord ==
    (pc["chat"] = "idle" /\ store # NoRef /\ heap[store].status = "IN_QNA") =>
        /\ \A kind \in VoiceKinds \ {"transcript"} :
              LET r == handle_voice_note(Cur, "chat", kind, <<>>)
              IN  /\ r.heap = heap /\ r.store = store
                  /\ r.pc["chat"] \in {"ret", "raised"}
                  /\ \A k \in 1..Len(r.trace["chat"]) : r.trace["chat"][k].e # "post"
        /\ \A m \in ChatMessagesOf(serial) :
              Strip(m.text) = <<>> =>
                  LET r == handle_new_message(Cur, "chat", m)
                  IN  /\ r.heap = heap /\ r.store = store
                      /\ r.pc["chat"] = "ret"
                      /\ \A k \in 1..Len(r.trace["chat"]) : r.trace["chat"][k].e # "post"

\* After one answered question a voice note failed: the record still stands
\* at the second question.
C37_Witness ==
    /\ pc["chat"] = "ret"
    /\ trace["chat"] = <<E0("voice_error")>>
    /\ store # NoRef
    /\ heap[store].status = "IN_QNA"
    /\ heap[store].index = 1
    /\ Len(heap[store].answers) = 1

\* C38: one execution of run_call_qna for a session of N questions issues
\* at most 3 * N ask requests.
C38_AskBound ==
    asks <= 3 * Len(input.question_set)

\* C39: when the record was deleted while run_call_qna waited for its ask
\* request, what the request returns is not handed to process_ai_answer and
\* the 'session was lost' error is not sent.
C39_DeletedDuringAsk ==
    [][(pc["call"] = "r_ask" /\ store = NoRef /\ pc'["call"] # "r_ask")
          => \A k \in DOMAIN trace'["call"] : trace'["call"][k].e # "lost"]_vars

----------------------------------------------------------------------------
\* The check-in id of the next trigger

\* The check-in the session runs under, another one, and no id.
Checkin == "checkin"
Fresh == "fresh"
NoId == ""

\* get_active_checkin_session: the backend's active check-in of the patient,
\* which is the session's unless a step of tr asked the backend to end it.
get_active_checkin_session(tr) ==
    IF \E k \in DOMAIN tr : tr[k].e = "end_checkin" THEN NoId ELSE Checkin

\* Variant: a new check-in is started whatever the backend holds.
trigger_checkin_id_new(active, started) == started

\* main.py lines 45-54: the id of the active check-in, else the id of a new
\* one.
trigger_checkin_id(active, started) ==
    IF active # NoId THEN active ELSE started

Has(t, e) == \E k \in DOMAIN trace[t] : trace[t][k].e = e

====
